---------------------------- MODULE Spec2Model ----------------------------
(***************************************************************************)
(* RotorHazard hardware interface (src/src/interface/RHInterface.py).      *)
(*                                                                         *)
(* The specifications of this module share its definitions.  Among them:   *)
(*   Spec         the polling task (update_loop / update) decoding the     *)
(*                LapStats frames of two nodes, cycle after cycle;         *)
(*   SpecCapture  the polling task of one node with the capture calls of   *)
(*                the API running between the poll's suspension points;    *)
(*   SpecBus      the bus transactor (read_block / write_block /           *)
(*                update_environmental_data) run by concurrent tasks       *)
(*                under the semaphore and the quiet-time discipline;       *)
(*   SpecFrequency, SpecStamps                                             *)
(*                concurrent calls of set_frequency and the polling task,  *)
(*                followed bus operation by bus operation.                 *)
(*                                                                         *)
(* Conventions.  Clock readings are integers in milliseconds; monotonic()  *)
(* and milliseconds() read the same host clock `now`.  Python's None is    *)
(* NoData (the empty list) for a block and None for a scalar.  A Python    *)
(* index k of a list is index k+1 of the sequence (At, From).  The         *)
(* subscriber callbacks are registered (callable).                         *)
(***************************************************************************)
EXTENDS Integers, Sequences, FiniteSets, TLC

\* ------------------------------------------------------------ constants

READ_LAP_STATS == 5
\* 0.075 s, in milliseconds
I2C_CHILL_TIME == 75
I2C_RETRY_COUNT == 5
\* 0.1 s, in milliseconds
UPDATE_SLEEP == 100
MIN_RSSI_VALUE == 1
MAX_RSSI_VALUE == 999
CAP_ENTER_EXIT_AT_MILLIS == 3000
ENTER_AT_PEAK_MARGIN == 5
LAP_SOURCE_REALTIME == 0
\* the verification value in the high byte of the revision code (0x25)
REVISION_VERIFY == 37
READ_FREQUENCY == 3
READ_ENTER_AT_LEVEL == 49
READ_EXIT_AT_LEVEL == 50
WRITE_FREQUENCY == 81
WRITE_ENTER_AT_LEVEL == 113
WRITE_EXIT_AT_LEVEL == 114
\* the frequency a disabled node is sent
DefaultFrequency == 5800
\* milliseconds per second, as in (I2C_CHILL_TIME * 1000)
MsPerSecond == 1000
\* Python's None where a number is expected
None == -999
\* Python's None where a block of bytes is expected
NoData == <<>>

\* ------------------------------------------------------------ bounds

\* no poll cycle begins after this time
\* no poll cycle begins after this time
MaxTime == 400
\* the clock of the bus transactor advances by this many milliseconds
TickMs == 25
\* the clock of the bus transactor stops at this time
MaxBusTime == 400
\* the milliseconds a bus operation of the transactor takes at most
MaxOpMs == 25
\* no poll cycle begins after this time while levels are captured
MaxCaptureTime == 4000
\* the milliseconds from one poll cycle to the next while levels are captured
CaptureStep == 2000
\* the milliseconds a bus round trip (t_response - t_request) takes
RttMs == 20
\* no call of the bus transactor begins after this time when the calls are
\* followed to their end
MaxCallTime == 50
\* the calls of the configuration API that are followed
MaxApiCalls == 2
\* no poll cycle of the nodes at every API level begins after this time
MaxLevelsTime == 100

\* the time up to which poll cycles start where the history is looked at
MaxHistoryTime == 200
\* no poll cycle begins after this time where the calls are followed
\* operation by operation
MaxSharedTime == 200
\* scenario S4 is followed up to this time, in milliseconds
MaxS4Time == 3500
\* the milliseconds from one frame of scenario S4 to the next
S4Step == 500

\* ------------------------------------------------------------ byte codec

Byte == 0..255

At(data, k) == data[k + 1]

From(data, k) == SubSeq(data, k + 1, Len(data))

RECURSIVE SumSeq(_)
SumSeq(s) == IF s = <<>> THEN 0 ELSE s[1] + SumSeq(Tail(s))

unpack_8(data) == data[1]

unpack_16(data) == data[1] * 256 + data[2]

unpack_32(data) == ((data[1] * 256 + data[2]) * 256 + data[3]) * 256 + data[4]

pack_8(v) == <<v>>

\* data >> 8 is not masked: it is the floor of data / 256, whatever the sign
pack_16(v) == <<v \div 256, v % 256>>

pack_32(v) == <<v \div 16777216, (v \div 65536) % 256, (v \div 256) % 256, v % 256>>

validate_checksum(data) ==
    IF data = NoData THEN FALSE
    ELSE (SumSeq(SubSeq(data, 1, Len(data) - 1)) % 256) = data[Len(data)]

unpack_rssi(api_level, data) ==
    IF api_level >= 18 THEN unpack_8(data) ELSE unpack_16(data)

\* the block a node sends for a payload: the payload and its checksum byte
WithChecksum(payload) == Append(payload, SumSeq(payload) % 256)

\* the same block damaged on the wire: the checksum byte no longer matches
Corrupted(payload) == Append(payload, (SumSeq(payload) + 1) % 256)


\* ------------------------------------------------------------ node registry

i2c_addrs == <<8, 10, 12, 14, 16, 18, 20, 22>>

\* Node(): the record a node starts as
NewNode ==
    [ index |-> 0, i2c_addr |-> 0, api_level |-> 0, api_valid_flag |-> FALSE,
      frequency |-> 0, current_rssi |-> 0,
      node_peak_rssi |-> 0, pass_peak_rssi |-> 0, node_nadir_rssi |-> 0,
      loop_time |-> 10, crossing_flag |-> FALSE,
      last_lap_id |-> -1, lap_ms_since_start |-> -1,
      enter_at_level |-> 0, exit_at_level |-> 0,
      cap_enter_at_flag |-> FALSE, cap_enter_at_total |-> 0,
      cap_enter_at_count |-> 0, cap_enter_at_millis |-> 0,
      cap_exit_at_flag |-> FALSE, cap_exit_at_total |-> 0,
      cap_exit_at_count |-> 0, cap_exit_at_millis |-> 0,
      history_values |-> <<>>, history_times |-> <<>> ]

\* the addresses that answer the probe, in the order of i2c_addrs
RECURSIVE Probe(_, _)
Probe(present, k) ==
    IF k > Len(i2c_addrs) THEN <<>>
    ELSE IF i2c_addrs[k] \in present
         THEN <<[NewNode EXCEPT !.i2c_addr = i2c_addrs[k], !.index = k - 1]>>
              \o Probe(present, k + 1)
         ELSE Probe(present, k + 1)

\* the API level a revision code stands for
ApiLevelOf(rev_val) ==
    IF rev_val \div 256 = REVISION_VERIFY THEN rev_val % 256 ELSE 0

\* the newer API functions held to begin above level 10
ApiValidAbove(api_level) == api_level > 10

\* line 138: the API levels that support the newer API functions
ApiValid(api_level) == api_level >= 10

\* what discovery reads from one node: its frequency, revision code, node
\* peak and nadir RSSI and enter-at and exit-at levels
Configure(node, rd) ==
    LET lvl == ApiLevelOf(rd.rev_val)
        n1 == [node EXCEPT !.frequency = rd.frequency, !.api_level = lvl]
    IN  IF ApiValid(lvl)
        THEN [n1 EXCEPT !.api_valid_flag = TRUE,
                        !.node_peak_rssi = rd.peak,
                        !.node_nadir_rssi = IF lvl >= 13 THEN rd.nadir ELSE @,
                        !.enter_at_level = rd.enter_at,
                        !.exit_at_level = rd.exit_at]
        ELSE n1

\* RHInterface.__init__: the registry for the addresses in `present`, node k
\* answering the reads of discovery with reads[k]
Discover(present, reads) ==
    LET found == Probe(present, 1)
    IN  [k \in 1..Len(found) |-> Configure(found[k], reads[k])]

\* ------------------------------------------------------------ inputs

\* the revision code of a node at API level `level`
Rev(level) == REVISION_VERIFY * 256 + level

\* a revision code that carries `level` and fails the verification
Unverified(level) == (REVISION_VERIFY - 1) * 256 + level

\* what a node answers the reads of discovery with
Reads(rev_val) ==
    [rev_val |-> rev_val, frequency |-> 5800, peak |-> 152, nadir |-> 40,
     enter_at |-> 90, exit_at |-> 80]

\* a bus: the addresses that answer the probe and, in their order, the
\* revision codes of the nodes there
Bus(present, revs) ==
    [present |-> present, reads |-> [k \in 1..Len(revs) |-> Reads(revs[k])]]

\* the buses the polling task is run on: nodes at API levels 18, 13 and 10
\* and nodes whose revision code fails the verification (API level 0)
BusChoices ==
    { Bus({8, 10}, <<Rev(18), Rev(18)>>),
      Bus({8, 10}, <<Rev(18), Rev(13)>>),
      Bus({8, 10}, <<Rev(13), Rev(18)>>),
      Bus({10, 12}, <<Rev(10), Rev(10)>>),
      Bus({12}, <<0>>) }

\* the fields of a LapStats frame with no history sample
Fields(lap_id, lap_ms, rssi, cross) ==
    [lap_id |-> lap_id, lap_ms |-> lap_ms, lap_diff |-> 250, rssi |-> rssi,
     cross |-> cross, peak |-> 0, peak_first |-> 0, peak_last |-> 0,
     nadir |-> 0, nadir_time |-> 0]

\* the frames a node sends the polling task: frames with an RSSI in range,
\* and one frame with an RSSI out of range (0, or 1000 where the RSSI has
\* 16 bits) that carries a new lap, a crossing and history samples.  Nodes
\* below API level 13 vary the time since the start as well
FrameFields(api_level) ==
    LET out == [Fields(1, 20000, IF api_level >= 18 THEN 0 ELSE 1000, 1)
                   EXCEPT !.peak = 150, !.peak_first = 1000,
                          !.peak_last = 2000, !.nadir = 40,
                          !.nadir_time = 3000]
    IN  IF api_level >= 13
        THEN {Fields(l, 20000, 100, c) : l \in {0, 1}, c \in {0, 1}} \cup {out}
        ELSE {Fields(l, ms, 100, c) :
                 l \in {0, 1}, ms \in {19800, 20000}, c \in {0, 1}}
             \cup {out}

\* the frames a node sends while levels are captured: two RSSI values in
\* range, a frame with history samples, and the frame out of range
CaptureFrameFields(api_level) ==
    {f \in FrameFields(api_level) : f.rssi # 100}
    \cup {Fields(0, 20000, 100, 0), Fields(0, 20000, 150, 0),
           [Fields(0, 20000, 100, 0) EXCEPT !.peak = 150, !.peak_first = 1000,
                                           !.peak_last = 2000, !.nadir = 40,
                                           !.nadir_time = 3000]}

\* the RSSI values of the frames of scenario S4
S4Rssi == {100, 110, 120, 130, 140, 150}

\* the frame a node sends in scenario S4, with no lap, no crossing and no
\* history: the frames of a capture carry 100, 110, ... in this order, the
\* frames before and after it 150
S4FrameFields(node) ==
    LET r == IF node.cap_enter_at_flag
             THEN 100 + 10 * node.cap_enter_at_count
             ELSE 150
    IN  {Fields(0, 20000, IF r \in S4Rssi THEN r ELSE 150, 0)}

\* the frames a node sends where every API level is polled: one with an
\* RSSI in range, a new lap and a crossing, and one with an RSSI out of range
LevelFrameFields(api_level) ==
    {Fields(1, 20000, 100, 1),
     Fields(1, 20000, IF api_level >= 18 THEN 0 ELSE 1000, 0)}

\* the frames a node sends where the history is looked at: no lap and no
\* crossing, and every combination of a peak or none, a nadir or none, a
\* first peak time before, at and after the last peak time, and a nadir time
\* before, at and after the last peak time
HistoryFrameFields ==
    {[Fields(0, 20000, 100, 0) EXCEPT !.peak = p, !.peak_first = pf,
                                      !.peak_last = 2000, !.nadir = n,
                                      !.nadir_time = nt] :
        p \in {0, 150}, pf \in {1000, 2000, 3000},
        n \in {0, 40}, nt \in {1000, 2000, 3000}}

\* the frames of a family of runs
FramesOf(family, node) ==
    CASE family = "poll"    -> FrameFields(node.api_level)
      [] family = "history" -> HistoryFrameFields
      [] family = "capture" -> CaptureFrameFields(node.api_level)
      [] family = "s4"      -> S4FrameFields(node)
      [] family = "levels"  -> LevelFrameFields(node.api_level)

\* the 19-byte LapStats payload of a node at API level 18 or above
Payload18(f) ==
    <<f.lap_id>> \o pack_16(f.lap_diff) \o <<f.rssi, 152, 120>>
    \o pack_16(1000) \o <<f.cross, 60, 40, f.peak>> \o pack_16(f.peak_first)
    \o pack_16(f.peak_last) \o <<f.nadir>> \o pack_16(f.nadir_time)

\* the LapStats payload of a node below API level 18: 28 bytes, of which
\* the node sends as many as are asked for
PayloadOld(f) ==
    <<f.lap_id>> \o pack_32(f.lap_ms) \o pack_16(f.rssi) \o pack_16(152)
    \o pack_16(120) \o pack_16(1000) \o <<0, 0, f.cross>> \o pack_16(60)
    \o pack_16(40) \o pack_16(f.peak) \o pack_16(f.peak_last)
    \o pack_16(f.nadir) \o pack_16(f.nadir_time)

\* the payloads a node answers a LapStats read of `size` bytes with
Payloads(api_level, size, fields) ==
    IF api_level >= 18
    THEN {Payload18(f) : f \in fields}
    ELSE {SubSeq(PayloadOld(f), 1, size) : f \in fields}

\* ------------------------------------------------------------ state

VARIABLES
    nodes,          \* self.nodes: the registry, a sequence of node records
    now,            \* the host clock, in milliseconds
    i2c_request,    \* self.i2c_request: request time of the last read
    i2c_response,   \* self.i2c_response: response time of the last read
    i2c_timestamp,  \* self.i2c_timestamp: time of the last bus activity
    pc,             \* where the polling task is
    idx,            \* update(): position in `for node in self.nodes`
    upd_list,       \* update(): nodes with new laps
    cross_list,     \* update(): nodes with crossing-flag changes
    nadir_bound,    \* update(): whether offset_nodeNadirRssi is assigned
    frame,          \* update(): data and readtime, kept across a transmit
    error,          \* the exception that ended the polling task, if any
    events,         \* the callbacks invoked since the poll cycle began
    seen,           \* per node, what the poll cycle read and found
    semaphore,      \* the task inside `with self.semaphore`, or "free"
    tasks,          \* per task, its place in a call of the bus transactor
    last_end,       \* when the latest bus operation ended, -1 before any
    discovered,     \* whether the constructor's discovery read has returned
    rev_read,       \* per node, the revision code discovery read from it
    device,         \* per node, the frequency the node itself holds, where
                    \* the calls are followed operation by operation
    cap_samples,    \* per node, the RSSI samples of its enter-at capture
    wire,           \* the writes and read-backs of the latest API call
    api_ret         \* what the API call of the latest step returned

vars == <<nodes, now, i2c_request, i2c_response, i2c_timestamp, pc, idx,
          upd_list, cross_list, nadir_bound, frame, error, events, seen,
          semaphore, tasks, last_end, discovered, rev_read, device,
          cap_samples, wire, api_ret>>

\* the state of the bus transactor, which the polling specifications run
\* as one step
busvars == <<semaphore, tasks, last_end, discovered, rev_read, device>>

\* the state of the polling task, which the transactor specification
\* leaves alone
pollvars == <<nodes, pc, idx, upd_list, cross_list, nadir_bound, frame, error,
             events, seen, cap_samples>>

\* what an API call leaves behind for its caller
apivars == <<wire, api_ret>>

\* no API call was the latest step
NoCall ==
    [call |-> "none", node |-> 0, arg |-> None, value |-> None, error |-> "",
     log |-> <<>>, rounds |-> 0, seq |-> 0]

\* the API call `call` for node k returned `value`
Returned(call, k, value) ==
    [NoCall EXCEPT !.call = call, !.node = k, !.value = value]

\* a step of the polling task: the caller of the API has its answer
PollStep == wire' = wire /\ api_ret' = NoCall

NodeIds == 1..Len(nodes)

NoFrame == [data |-> NoData, readtime |-> 0]

\* the entry of `seen` of a node the poll cycle has not come to.  An
\* entry tells how the read ended ("ok": a checksum validated, "crc": none
\* did but a block was read, "io": nothing was read), what read_block
\* returned, the round trip update() computed, the node's last_lap_id and
\* crossing_flag before the frame, how many calls of read_block the cycle
\* has made for the node and the size the latest asked for
NotSeen == [read |-> "none", data |-> NoData, rtt |-> 0, last_lap_id |-> 0,
            crossing_flag |-> FALSE, reads |-> 0, size |-> 0]

Event(cb, k, arg) == [cb |-> cb, node |-> k, arg |-> arg, source |-> 0]

\* the entries of a sequence that satisfy Test, in order
RECURSIVE SelectEvents(_, _)
SelectEvents(s, cbs) ==
    IF s = <<>> THEN <<>>
    ELSE IF s[1].cb \in cbs THEN <<s[1]>> \o SelectEvents(Tail(s), cbs)
         ELSE SelectEvents(Tail(s), cbs)

\* ------------------------------------------------------------ read_block

\* one bus answer to a block read: an IOError, or a block of bytes
IoError == [io |-> TRUE, block |-> NoData]
Answer(block) == [io |-> FALSE, block |-> block]

ReadStart(t, req, resp) ==
    [success |-> FALSE, retry_count |-> 0, data |-> NoData, ops |-> 0,
     now |-> t, i2c_request |-> req, i2c_response |-> resp, log |-> <<>>]

\* the log lines of a failed attempt: none for the first retry
RetryLog(retry_count, kind) ==
    IF retry_count < I2C_RETRY_COUNT
    THEN IF retry_count > 1 THEN <<kind>> ELSE <<>>
    ELSE <<kind, "limit reached">>

\* one pass of the loop of read_block, the bus answering `oc` after `rtt` ms
ReadIter(st, oc, rtt) ==
    IF oc.io
    THEN [st EXCEPT !.i2c_request = st.now,
                    !.ops = @ + 1,
                    !.retry_count = @ + 1,
                    !.log = @ \o <<"Read Error">>
                              \o RetryLog(st.retry_count + 1, "Retry (IOError)")]
    ELSE LET base == [st EXCEPT !.i2c_request = st.now,
                                !.i2c_response = st.now + rtt,
                                !.now = st.now + rtt,
                                !.ops = @ + 1]
         IN  IF validate_checksum(oc.block)
             THEN [base EXCEPT !.success = TRUE,
                               !.data = SubSeq(oc.block, 1, Len(oc.block) - 1)]
             ELSE [base EXCEPT !.data = oc.block,
                               !.retry_count = @ + 1,
                               !.log = @ \o RetryLog(st.retry_count + 1,
                                                     "Retry (checksum)")]

\* a retry loop without the limit on retry_count
RetryForever(success, retry_count) == success = FALSE

\* lines 420 and 457: the condition of the retry loop
Retrying(success, retry_count) ==
    success = FALSE /\ retry_count < I2C_RETRY_COUNT

\* read_block: the loop run against the bus answers `ocs`
RECURSIVE read_block(_, _, _)
read_block(st, ocs, rtt) ==
    IF ~Retrying(st.success, st.retry_count) \/ ocs = <<>>
    THEN st
    ELSE read_block(ReadIter(st, Head(ocs), rtt), Tail(ocs), rtt)

\* what the bus may do to a read of `payload`: deliver it, fail every
\* attempt, or damage every attempt
BusFates(payload) ==
    LET ok  == Answer(WithChecksum(payload))
        bad == Answer(Corrupted(payload))
    IN  { <<ok>>,
          [k \in 1..I2C_RETRY_COUNT |-> IoError],
          [k \in 1..I2C_RETRY_COUNT |-> bad] }


\* ------------------------------------------------------------ update()

\* the sizes of the LapStats table: 19, 20, 18 and 17 bytes
SizeByTable(node) ==
    IF node.api_level >= 18 THEN 19
    ELSE IF node.api_level >= 13 THEN 20
    ELSE IF node.api_level >= 10 THEN 18
    ELSE 17

\* the size update() asks a LapStats read for
LapStatsSize(node) ==
    IF node.api_valid_flag \/ node.api_level >= 5
    THEN IF node.api_level >= 18 THEN 19
         ELSE IF node.api_level >= 17 THEN 28
         ELSE IF node.api_level >= 13 THEN 20
         ELSE 18
    ELSE 17

\* the offsets update() reads a frame at
Offsets(api_level) ==
    IF api_level >= 18
    THEN [rssi |-> 3, nodePeakRssi |-> 4, passPeakRssi |-> 5, loopTime |-> 6,
          crossing |-> 8, passNadirRssi |-> 9, peakRssi |-> 11,
          peakFirstTime |-> 12, peakLastTime |-> 14, nadirRssi |-> 16,
          nadirTime |-> 17]
    ELSE [rssi |-> 5, nodePeakRssi |-> 7, passPeakRssi |-> 9, loopTime |-> 11,
          crossing |-> 15, passNadirRssi |-> 16, peakRssi |-> 20,
          peakFirstTime |-> 22, peakLastTime |-> 22, nadirRssi |-> 24,
          nadirTime |-> 26]

\* offset_nodeNadirRssi, which only the API level 18 layout assigns
offset_nodeNadirRssi == 10

\* a lap time of `ms` milliseconds and `rtt` / 2 seconds, in units of
\* 1 / (2 * MsPerSecond) of a millisecond
LapTime(ms, rtt) == ms * 2 * MsPerSecond + rtt

\* a range check that accepts every reading
AnyRssi(rssi_val) == TRUE

\* line 256: the range an RSSI reading is accepted in
InRange(rssi_val) ==
    rssi_val >= MIN_RSSI_VALUE /\ rssi_val <= MAX_RSSI_VALUE

\* lines 255-292: the frame `data` applied to node record `node`;
\* `roundtrip` is i2c_response - i2c_request and `bound` tells whether
\* offset_nodeNadirRssi is assigned
Decode(node, data, roundtrip, bound) ==
    LET api      == node.api_level
        off      == Offsets(api)
        lap_id   == At(data, 0)
        rssi_val == unpack_rssi(api, From(data, off.rssi))
        inrange  == InRange(rssi_val)
        ms_raw   == unpack_32(From(data, 1))
        ms_val   == IF ms_raw < 0 \/ ms_raw > 9999999 THEN 0 ELSE ms_raw
        cross    == At(data, off.crossing) # 0
        n1       == [node EXCEPT !.current_rssi = rssi_val]
        n2       == IF api >= 18 THEN n1
                    ELSE [n1 EXCEPT !.lap_ms_since_start = ms_val]
        n3       == [n2 EXCEPT
                       !.node_peak_rssi = unpack_rssi(api, From(data, off.nodePeakRssi)),
                       !.pass_peak_rssi = unpack_rssi(api, From(data, off.passPeakRssi)),
                       !.loop_time = unpack_16(From(data, off.loopTime)),
                       !.crossing_flag = cross]
        unbound  == api >= 13 /\ ~bound
        n4       == IF api >= 13 /\ bound
                    THEN [n3 EXCEPT !.node_nadir_rssi =
                             unpack_rssi(api, From(data, offset_nodeNadirRssi))]
                    ELSE n3
        legacy   == [n1 EXCEPT
                       !.pass_peak_rssi = unpack_rssi(api, From(data, 11)),
                       !.loop_time = unpack_32(From(data, 13))]
        lap_time == IF node.api_valid_flag
                    THEN IF api >= 18
                         THEN LapTime(unpack_16(From(data, 1)), roundtrip)
                         ELSE LapTime(0, 0)
                    ELSE LapTime(ms_raw, 0)
    IN  IF ~inrange
        THEN [node |-> node, accepted |-> FALSE, crash |-> "",
              cross_changed |-> FALSE, new_lap |-> FALSE, lap_id |-> lap_id,
              lap_time |-> 0, rssi_val |-> rssi_val]
        ELSE IF node.api_valid_flag
        THEN [node |-> n4, accepted |-> TRUE,
              crash |-> IF unbound THEN "UnboundLocalError" ELSE "",
              cross_changed |-> cross # node.crossing_flag,
              new_lap |-> lap_id # node.last_lap_id, lap_id |-> lap_id,
              lap_time |-> lap_time, rssi_val |-> rssi_val]
        ELSE [node |-> legacy, accepted |-> TRUE, crash |-> "",
              cross_changed |-> FALSE,
              new_lap |-> lap_id # node.last_lap_id, lap_id |-> lap_id,
              lap_time |-> lap_time, rssi_val |-> rssi_val]


\* a history that keeps the samples of the latest frame only
HistoryOfLatestFrame(node, fr) ==
    LET data       == fr.data
        off        == Offsets(node.api_level)
        peakRssi   == unpack_rssi(node.api_level, From(data, off.peakRssi))
        nadirRssi  == unpack_rssi(node.api_level, From(data, off.nadirRssi))
        values     == (IF peakRssi > 0 THEN <<peakRssi>> ELSE <<>>)
                      \o (IF nadirRssi > 0 THEN <<nadirRssi>> ELSE <<>>)
    IN  IF node.api_level >= 18
        THEN [node EXCEPT
                !.history_values = values,
                !.history_times = [j \in 1..Len(values) |-> fr.readtime]]
        ELSE node

\* lines 319-373: the history samples of a frame at API level 18, appended
\* to the node's history; times are in units of 1 / (2 * MsPerSecond) s
History(node, fr) ==
    LET data       == fr.data
        off        == Offsets(node.api_level)
        peakRssi   == unpack_rssi(node.api_level, From(data, off.peakRssi))
        peakFirst  == unpack_16(From(data, off.peakFirstTime))
        peakLast   == unpack_16(From(data, off.peakLastTime))
        nadirRssi  == unpack_rssi(node.api_level, From(data, off.nadirRssi))
        nadirTime  == unpack_16(From(data, off.nadirTime))
        \* readtime - (t / 1000): an integer division of integers
        ago(t)     == fr.readtime - (t \div 1000) * 2 * MsPerSecond
        peak       == IF peakFirst < peakLast
                      THEN <<[v |-> peakRssi, t |-> ago(peakFirst)],
                             [v |-> peakRssi, t |-> ago(peakLast)]>>
                      ELSE <<[v |-> peakRssi, t |-> ago(peakLast)]>>
        nadir      == <<[v |-> nadirRssi, t |-> ago(nadirTime)]>>
        samples    == IF peakRssi > 0
                      THEN IF nadirRssi > 0
                           THEN IF peakLast < nadirTime
                                THEN peak \o nadir
                                ELSE nadir \o peak
                           ELSE peak
                      ELSE IF nadirRssi > 0 THEN nadir ELSE <<>>
    IN  IF node.api_level >= 18
        THEN [node EXCEPT
                !.history_values = @ \o [j \in 1..Len(samples) |-> samples[j].v],
                !.history_times = @ \o [j \in 1..Len(samples) |-> samples[j].t]]
        ELSE node

\* lines 319-373 end the node's turn: the poll goes on to the next node
HistoryStage(node, k, fr, evs) ==
    [node |-> History(node, fr), pc |-> "loop", events |-> evs]

\* a capture window that is over at its first sample
OverAtOnce(t, millis) == TRUE

\* lines 298 and 312: the capture window is over when the clock has reached
\* its deadline
WindowOver(t, millis) == t >= millis

\* lines 308-317, up to the transmit of a finished exit-at capture
ExitStage(node, k, fr, t, evs) ==
    IF node.cap_exit_at_flag
    THEN LET n1 == [node EXCEPT !.cap_exit_at_total = @ + node.current_rssi,
                                !.cap_exit_at_count = @ + 1]
         IN  IF WindowOver(t, n1.cap_exit_at_millis)
             THEN [node |-> [n1 EXCEPT
                               !.exit_at_level =
                                   n1.cap_exit_at_total \div n1.cap_exit_at_count,
                               !.cap_exit_at_flag = FALSE],
                   pc |-> "xmit_exit", events |-> evs]
             ELSE HistoryStage(n1, k, fr, evs)
    ELSE HistoryStage(node, k, fr, evs)

\* the node peak less the margin, whatever the mean of the capture
AlwaysClamped(node) == node.node_peak_rssi - ENTER_AT_PEAK_MARGIN

\* the mean of the capture, whatever the node peak
MeanOnly(node) == node.cap_enter_at_total \div node.cap_enter_at_count

\* the enter-at level of a finished capture, kept ENTER_AT_PEAK_MARGIN
\* below the node peak
CapturedEnterAt(node) ==
    LET mean == node.cap_enter_at_total \div node.cap_enter_at_count
    IN  IF node.node_peak_rssi > 0
           /\ node.node_peak_rssi - mean < ENTER_AT_PEAK_MARGIN
        THEN node.node_peak_rssi - ENTER_AT_PEAK_MARGIN
        ELSE mean

\* lines 294-306, up to the transmit of a finished enter-at capture
EnterStage(node, k, fr, t, evs) ==
    IF node.cap_enter_at_flag
    THEN LET n1 == [node EXCEPT !.cap_enter_at_total = @ + node.current_rssi,
                                !.cap_enter_at_count = @ + 1]
         IN  IF WindowOver(t, n1.cap_enter_at_millis)
             THEN [node |-> [n1 EXCEPT !.enter_at_level = CapturedEnterAt(n1),
                                       !.cap_enter_at_flag = FALSE],
                   pc |-> "xmit_enter", events |-> evs]
             ELSE ExitStage(n1, k, fr, t, evs)
    ELSE ExitStage(node, k, fr, t, evs)

\* upd_list.sort(key = ...): a stable insertion sort, ascending by the
\* nodes' lap_ms_since_start
RECURSIVE InsertByLapMs(_, _, _)
InsertByLapMs(item, sorted, ns) ==
    IF sorted = <<>> THEN <<item>>
    ELSE IF ns[item.node].lap_ms_since_start
              < ns[Head(sorted).node].lap_ms_since_start
         THEN <<item>> \o sorted
         ELSE <<Head(sorted)>> \o InsertByLapMs(item, Tail(sorted), ns)

RECURSIVE SortByLapMs(_, _)
SortByLapMs(list, ns) ==
    IF list = <<>> THEN <<>>
    ELSE InsertByLapMs(list[Len(list)],
                       SortByLapMs(SubSeq(list, 1, Len(list) - 1), ns), ns)

\* the new laps in the order the poll found them
PollOrder(list, ns) == list

\* lines 385-399: the order the new laps are processed in
LapOrder(list, ns) ==
    IF Len(list) = 1 THEN list ELSE SortByLapMs(list, ns)

\* lines 389-391 and 397-399: one item of upd_list
LapItem(item, st) ==
    LET node == st.nodes[item.node]
    IN  [nodes  |-> [st.nodes EXCEPT ![item.node].last_lap_id = item.lap_id],
         events |-> IF node.last_lap_id # -1
                    THEN Append(st.events,
                                [cb |-> "pass_record", node |-> item.node,
                                 arg |-> item.lap_time,
                                 source |-> LAP_SOURCE_REALTIME])
                    ELSE st.events]

RECURSIVE LapItems(_, _)
LapItems(list, st) ==
    IF list = <<>> THEN st ELSE LapItems(Tail(list), LapItem(Head(list), st))

\* lines 379-382: the crossing callbacks, in the order of cross_list
CrossingEvents(list) ==
    [j \in 1..Len(list) |->
        [cb |-> "node_crossing", node |-> list[j], arg |-> 0, source |-> 0]]


\* ------------------------------------------------------------ the bus transactor

\* the tasks of the cooperative scheduler: the foreground that constructs
\* the interface and then serves the API, the polling task, and the task
\* that samples the environmental sensors
Tasks == {"api", "poll", "env"}

\* the calls a task makes: read_block, write_block, or the sample of one
\* sensor in update_environmental_data
Kinds(t) ==
    IF t = "poll" THEN {"read"}
    ELSE IF t = "env" THEN {"sample"}
    ELSE {"read", "write"}

\* the payload of the block reads of the transactor specification
BusPayload == <<7, 9>>

\* what the bus may answer an operation of kind `kind` with
Outcomes(kind) ==
    IF kind = "read"
    THEN {IoError, Answer(WithChecksum(BusPayload)), Answer(Corrupted(BusPayload))}
    ELSE {IoError, Answer(NoData)}

\* a task outside the transactor.  `ops` counts the operations the call has
\* put on the bus, `fails` collects the kinds of its failed attempts, and
\* `start` and `wake` are the times its operation began and its quiet-time
\* sleep ends
Idle ==
    [pc |-> "idle", kind |-> "none", success |-> FALSE, retry_count |-> 0,
     data |-> NoData, ops |-> 0, start |-> 0, wake |-> 0, fails |-> {}]

\* a semaphore that admits every task
AlwaysAdmit(holder) == TRUE

\* i2c_sleep without a quiet time
NoQuietTime(t_now, stamp) == 0

\* `with self.semaphore`: BoundedSemaphore(1) admits a task when no task
\* is inside
CanAcquire(holder) == holder = "free"

\* lines 409-410: time_remaining of i2c_sleep, in milliseconds
time_remaining(t_now, stamp) == I2C_CHILL_TIME - (t_now - stamp)

\* lines 407-413: the time i2c_sleep returns, entered at t_now
i2c_sleep(t_now, stamp) ==
    IF stamp = -1 THEN t_now
    ELSE IF time_remaining(t_now, stamp) > 0
         THEN t_now + time_remaining(t_now, stamp)
         ELSE t_now

\* one pass of the loop of write_block, the bus answering `oc`
WriteIter(st, oc) ==
    IF oc.io
    THEN [st EXCEPT !.ops = @ + 1, !.retry_count = @ + 1]
    ELSE [st EXCEPT !.ops = @ + 1, !.success = TRUE]

\* lines 720-728: the sample of one sensor, which is not tried again
SampleIter(st, oc) ==
    [st EXCEPT !.ops = @ + 1, !.success = ~oc.io,
               !.retry_count = I2C_RETRY_COUNT]

\* a semaphore a task keeps when its operation raises IOError
HeldOnError(t, oc) == IF oc.io THEN t ELSE "free"

\* lines 422, 459 and 721: `with self.semaphore` is left, by the end of the
\* block or by the IOError the operation raised; the semaphore is free
Released(t, oc) == "free"

\* the operation goes onto the bus
StartOp(t) ==
    tasks' = [tasks EXCEPT ![t].pc = "io", ![t].start = now, ![t].wake = 0]

\* a task calls read_block, write_block or the sensor sample.  Until the
\* discovery read of the constructor has returned, no other task runs
BeginCall(t, kind) ==
    /\ tasks[t].pc = "idle"
    /\ discovered \/ (t = "api" /\ kind = "read")
    /\ tasks' = [tasks EXCEPT ![t] = [Idle EXCEPT !.pc = "acquire",
                                                  !.kind = kind]]
    /\ UNCHANGED <<now, i2c_request, i2c_response, i2c_timestamp, semaphore,
                   last_end, discovered, rev_read, device>>
    /\ UNCHANGED pollvars
    /\ UNCHANGED apivars

\* lines 422-423, 459-460, 722-723: the task enters the semaphore and
\* i2c_sleep; the operation starts at once when no quiet time remains
Acquire(t) ==
    /\ tasks[t].pc = "acquire"
    /\ CanAcquire(semaphore)
    /\ semaphore' = t
    /\ IF i2c_sleep(now, i2c_timestamp) > now
       THEN tasks' = [tasks EXCEPT ![t].pc = "chill",
                                   ![t].wake = i2c_sleep(now, i2c_timestamp)]
       ELSE StartOp(t)
    /\ UNCHANGED <<now, i2c_request, i2c_response, i2c_timestamp, last_end,
                   discovered, rev_read, device>>
    /\ UNCHANGED pollvars
    /\ UNCHANGED apivars

\* line 413: gevent.sleep returns, no earlier than asked for
Wake(t) ==
    /\ tasks[t].pc = "chill"
    /\ now >= tasks[t].wake
    /\ StartOp(t)
    /\ UNCHANGED <<now, i2c_request, i2c_response, i2c_timestamp, semaphore,
                   last_end, discovered, rev_read, device>>
    /\ UNCHANGED pollvars
    /\ UNCHANGED apivars

\* lines 425-445, 461-473, 724-728: the operation ends with answer `oc`;
\* the task leaves the semaphore, stamps the bus activity, and goes round
\* the retry loop or returns
OpEnd(t, oc) ==
    LET me == tasks[t]
        rd == ReadIter([success |-> me.success, retry_count |-> me.retry_count,
                        data |-> me.data, ops |-> me.ops, now |-> me.start,
                        i2c_request |-> i2c_request,
                        i2c_response |-> i2c_response, log |-> <<>>],
                       oc, now - me.start)
        st == IF me.kind = "read"
              THEN [me EXCEPT !.success = rd.success,
                              !.retry_count = rd.retry_count,
                              !.data = rd.data, !.ops = rd.ops]
              ELSE IF me.kind = "write" THEN WriteIter(me, oc)
              ELSE SampleIter(me, oc)
        failed == IF oc.io THEN {"io"}
                  ELSE IF me.kind = "read" /\ ~rd.success THEN {"crc"} ELSE {}
        again == Retrying(st.success, st.retry_count)
    IN  /\ me.pc = "io"
        /\ oc \in Outcomes(me.kind)
        /\ tasks' = [tasks EXCEPT ![t] =
                        [st EXCEPT !.pc = IF again THEN "acquire" ELSE "idle",
                                   !.fails = @ \cup failed,
                                   !.start = 0]]
        /\ semaphore' = Released(t, oc)
        /\ i2c_timestamp' = now
        /\ last_end' = now
        /\ i2c_request' = IF me.kind = "read" THEN rd.i2c_request
                          ELSE i2c_request
        /\ i2c_response' = IF me.kind = "read" THEN rd.i2c_response
                           ELSE i2c_response
        /\ discovered' = (discovered \/ (t = "api" /\ ~again))
        /\ UNCHANGED <<rev_read, device>>
        /\ UNCHANGED now
        /\ UNCHANGED pollvars
        /\ UNCHANGED apivars

\* the host clock advances; a bus operation is in flight for MaxOpMs at most
Tick ==
    /\ now + TickMs <= MaxBusTime
    /\ \A t \in Tasks : tasks[t].pc = "io" => now - tasks[t].start < MaxOpMs
    /\ now' = now + TickMs
    /\ UNCHANGED <<i2c_request, i2c_response, i2c_timestamp>>
    /\ UNCHANGED busvars
    /\ UNCHANGED pollvars
    /\ UNCHANGED apivars

\* the state after lines 107-128 of __init__: the probe of the addresses
\* goes to the bus directly, so the transactor has seen no activity yet; its
\* first call is the first read of discovery (line 131)
InitBus ==
    /\ nodes = <<>>
    /\ seen = <<>>
    /\ now = 0
    /\ i2c_request = None
    /\ i2c_response = None
    /\ i2c_timestamp = -1
    /\ pc = "init"
    /\ idx = 1
    /\ upd_list = <<>>
    /\ cross_list = <<>>
    /\ nadir_bound = FALSE
    /\ frame = [data |-> NoData, readtime |-> 0]
    /\ error = ""
    /\ events = <<>>
    /\ semaphore = "free"
    /\ tasks = [t \in Tasks |-> Idle]
    /\ last_end = -1
    /\ discovered = FALSE
    /\ rev_read = <<>>
    /\ device = <<>>
    /\ cap_samples = <<>>
    /\ wire = <<>>
    /\ api_ret = NoCall

NextBus ==
    \/ \E t \in Tasks : \E kind \in Kinds(t) : BeginCall(t, kind)
    \/ \E t \in Tasks : Acquire(t)
    \/ \E t \in Tasks : Wake(t)
    \/ \E t \in Tasks : \E oc \in Outcomes(tasks[t].kind) : OpEnd(t, oc)
    \/ Tick

SpecBus == InitBus /\ [][NextBus]_vars

\* the host clock advances to the next time the task inside the semaphore
\* can go on: to the end of its quiet-time sleep, or by the MaxOpMs its
\* operation is in flight for at most
TickWhileBusy ==
    /\ \E t \in Tasks :
          \/ /\ tasks[t].pc = "chill"
             /\ now < tasks[t].wake
             /\ now' = tasks[t].wake
          \/ /\ tasks[t].pc = "io"
             /\ now - tasks[t].start < MaxOpMs
             /\ now' = now + MaxOpMs
    /\ UNCHANGED <<i2c_request, i2c_response, i2c_timestamp>>
    /\ UNCHANGED busvars
    /\ UNCHANGED pollvars
    /\ UNCHANGED apivars

\* the operation of task t ends, MaxOpMs after it began
OpEnds(t) ==
    /\ now - tasks[t].start >= MaxOpMs
    /\ \E oc \in Outcomes(tasks[t].kind) : OpEnd(t, oc)

\* the tasks make calls up to time MaxCallTime, and the calls made run to
\* their end
NextBusFair ==
    \/ \E t \in Tasks : \E kind \in Kinds(t) :
          now <= MaxCallTime /\ BeginCall(t, kind)
    \/ \E t \in Tasks : Acquire(t)
    \/ \E t \in Tasks : Wake(t)
    \/ \E t \in Tasks : OpEnds(t)
    \/ TickWhileBusy

\* the cooperative scheduler: time passes (gevent.sleep returns and a bus
\* operation ends), and a task that waits for the semaphore is run once the
\* semaphore stays free
FairBus ==
    /\ WF_vars(TickWhileBusy)
    /\ \A t \in Tasks : WF_vars(Wake(t))
    /\ \A t \in Tasks : WF_vars(OpEnds(t))
    /\ \A t \in Tasks : WF_vars(Acquire(t))

SpecBusFair == InitBus /\ [][NextBusFair]_vars /\ FairBus

\* ------------------------------------------------------------ the polling task

\* the state after RHInterface.__init__, but for the tasks: the nodes of one
\* of `buses` are in the registry and the polling task is at `at`
Built(buses, at) ==
    /\ \E bus \in buses :
            /\ nodes = Discover(bus.present, bus.reads)
            /\ seen = [k \in 1..Len(bus.reads) |-> NotSeen]
            /\ cap_samples = [k \in 1..Len(bus.reads) |-> {}]
            /\ rev_read = [k \in 1..Len(bus.reads) |-> bus.reads[k].rev_val]
            /\ device = [k \in 1..Len(bus.reads) |-> bus.reads[k].frequency]
    /\ now = 0
    /\ i2c_request = 0
    /\ i2c_response = 0
    /\ i2c_timestamp = 0
    /\ pc = at
    /\ idx = 1
    /\ upd_list = <<>>
    /\ cross_list = <<>>
    /\ nadir_bound = FALSE
    /\ frame = NoFrame
    /\ error = ""
    /\ events = <<>>
    /\ semaphore = "free"
    /\ last_end = 0
    /\ discovered = TRUE
    /\ wire = <<>>
    /\ api_ret = NoCall

\* the state after RHInterface.__init__ and start(): update() is entered
Constructed(buses, at) ==
    /\ Built(buses, at)
    /\ tasks = [t \in Tasks |-> Idle]

\* start() has been called: the polling task is about to enter update()
InitOn(buses) == Constructed(buses, "loop")

Init == InitOn(BusChoices)

\* a loop that reads every node
PolledAlways(frequency) == TRUE

\* line 204: `if node.frequency`, which 0 and None fail
Polled(frequency) == frequency # 0 /\ frequency # None

\* lines 187-190: start() spawns the polling task, which enters update()
start ==
    /\ pc = "init"
    /\ pc' = "loop"
    /\ UNCHANGED <<nodes, now, i2c_request, i2c_response, i2c_timestamp, idx,
                   upd_list, cross_list, nadir_bound, frame, error, events,
                   seen, cap_samples>>
    /\ UNCHANGED busvars
    /\ PollStep

\* lines 203-204: the next node of the loop; one whose frequency is 0 (or
\* None) is passed over, any other has its LapStats read issued
PollRead ==
    /\ pc = "loop"
    /\ idx <= Len(nodes)
    /\ IF Polled(nodes[idx].frequency)
       THEN pc' = "read" /\ idx' = idx
       ELSE pc' = "loop" /\ idx' = idx + 1
    /\ UNCHANGED <<nodes, now, i2c_request, i2c_response, i2c_timestamp,
                   upd_list, cross_list, nadir_bound, frame, error, events,
                   seen, cap_samples>>
    /\ UNCHANGED busvars
    /\ PollStep

\* the step a node's turn ends with: to the next node, to a transmit, or
\* out of update() by an exception
Advance(k, st, fr) ==
    /\ nodes' = [nodes EXCEPT ![k] = st.node]
    /\ events' = st.events
    /\ pc' = st.pc
    /\ idx' = IF st.pc = "loop" THEN k + 1 ELSE k
    /\ frame' = IF st.pc = "loop" THEN NoFrame ELSE fr

\* lines 205-377: read_block has returned r for node idx and the frame is
\* processed, up to the next suspension point
ProcessRead(r) ==
    LET node  == nodes[idx]
        roundtrip == r.i2c_response - r.i2c_request
        fr    == [data |-> r.data,
                  readtime |-> r.i2c_response + r.i2c_request]
        bound == nadir_bound \/ node.api_level >= 18
        d     == Decode(node, r.data, roundtrip, bound)
        obs   == [read |-> IF r.success THEN "ok"
                           ELSE IF r.data = NoData THEN "io" ELSE "crc",
                  data |-> r.data, rtt |-> roundtrip,
                  last_lap_id |-> node.last_lap_id,
                  crossing_flag |-> node.crossing_flag,
                  reads |-> seen[idx].reads + 1,
                  size |-> LapStatsSize(node)]
    IN  /\ pc = "read"
        /\ now' = r.now
        /\ i2c_request' = r.i2c_request
        /\ i2c_response' = r.i2c_response
        /\ i2c_timestamp' = r.now
        /\ seen' = [seen EXCEPT ![idx] = obs]
        /\ last_end' = r.now
        /\ UNCHANGED <<discovered, rev_read, device>>
        /\ PollStep
        /\ cap_samples' = IF r.data # NoData /\ d.accepted /\ d.crash = ""
                              /\ node.cap_enter_at_flag
                           THEN [cap_samples EXCEPT ![idx] = @ \cup {d.rssi_val}]
                           ELSE cap_samples
        /\ IF r.data = NoData
           THEN /\ Advance(idx, [node |-> node, pc |-> "loop",
                                 events |-> events], NoFrame)
                /\ UNCHANGED <<upd_list, cross_list, nadir_bound, error>>
           ELSE /\ nadir_bound' = bound
                /\ IF ~d.accepted
                   THEN /\ Advance(idx, [node |-> d.node, pc |-> "loop",
                                         events |-> events \o
                                            <<Event("RSSI out of range", idx,
                                                    d.rssi_val)>>], NoFrame)
                        /\ UNCHANGED <<upd_list, cross_list, error>>
                   ELSE IF d.crash # ""
                   THEN /\ Advance(idx, [node |-> d.node, pc |-> "dead",
                                         events |-> events], NoFrame)
                        /\ error' = d.crash
                        /\ UNCHANGED <<upd_list, cross_list>>
                   ELSE /\ cross_list' = IF d.cross_changed
                                         THEN Append(cross_list, idx)
                                         ELSE cross_list
                        /\ upd_list' = IF d.new_lap
                                       THEN Append(upd_list,
                                                   [node |-> idx, lap_id |-> d.lap_id,
                                                    lap_time |-> d.lap_time])
                                       ELSE upd_list
                        /\ Advance(idx, EnterStage(d.node, idx, fr, r.now,
                                                   events), fr)
                        /\ UNCHANGED error

\* the same with the whole of read_block in the step, the bus answering
\* `ocs`: no other task runs between the call and the return
ProcessFrame(payload, ocs, rtt) ==
    /\ ProcessRead(read_block(ReadStart(now, i2c_request, i2c_response),
                              ocs, rtt))
    /\ UNCHANGED <<semaphore, tasks>>

PollProcess(rtts, family) ==
    /\ pc = "read"
    /\ \E payload \in Payloads(nodes[idx].api_level, LapStatsSize(nodes[idx]),
                              FramesOf(family, nodes[idx])) :
         \E ocs \in BusFates(payload) : \E rtt \in rtts :
            ProcessFrame(payload, ocs, rtt)

\* lines 304-306: the enter-at level of the finished capture is sent to the
\* node, the subscriber is told, and the node's turn goes on at line 308
PollXmitEnter ==
    /\ pc = "xmit_enter"
    /\ Advance(idx, ExitStage(nodes[idx], idx, frame, now,
                   events \o <<Event("transmit_enter_at_level", idx,
                                     nodes[idx].enter_at_level),
                               Event("new_enter_or_exit_at", idx, 1)>>), frame)
    /\ i2c_request' = now
    /\ i2c_response' = now
    /\ i2c_timestamp' = now
    /\ last_end' = now
    /\ UNCHANGED <<now, upd_list, cross_list, nadir_bound, error, seen,
                   semaphore, tasks, discovered, rev_read, device,
                   cap_samples>>
    /\ PollStep

\* lines 315-317: the same for a finished exit-at capture; the node's turn
\* goes on at line 319
PollXmitExit ==
    /\ pc = "xmit_exit"
    /\ Advance(idx, HistoryStage(nodes[idx], idx, frame,
                   events \o <<Event("transmit_exit_at_level", idx,
                                     nodes[idx].exit_at_level),
                               Event("new_enter_or_exit_at", idx, 0)>>), frame)
    /\ i2c_request' = now
    /\ i2c_response' = now
    /\ i2c_timestamp' = now
    /\ last_end' = now
    /\ UNCHANGED <<now, upd_list, cross_list, nadir_bound, error, seen,
                   semaphore, tasks, discovered, rev_read, device,
                   cap_samples>>
    /\ PollStep

\* lines 379-399: the crossing callbacks, then the new laps; update() returns
PollDispatch ==
    LET crossed == events \o CrossingEvents(cross_list)
        st == LapItems(LapOrder(upd_list, nodes),
                       [nodes |-> nodes, events |-> crossed])
    IN  /\ pc = "loop"
        /\ idx > Len(nodes)
        /\ nodes' = st.nodes
        /\ events' = st.events
        /\ pc' = "sleep"
        /\ UNCHANGED <<now, i2c_request, i2c_response, i2c_timestamp, idx,
                       upd_list, cross_list, nadir_bound, frame, error, seen,
                       cap_samples>>
        /\ UNCHANGED busvars
        /\ PollStep

\* lines 194-196 and 201-202: gevent.sleep(UPDATE_SLEEP) returns after d ms
\* and update() is entered again
UpdateSleep(d, limit) ==
    /\ pc = "sleep"
    /\ d >= UPDATE_SLEEP
    /\ now + d <= limit
    /\ now' = now + d
    /\ pc' = "loop"
    /\ idx' = 1
    /\ upd_list' = <<>>
    /\ cross_list' = <<>>
    /\ nadir_bound' = FALSE
    /\ events' = <<>>
    /\ seen' = [k \in NodeIds |-> NotSeen]
    /\ UNCHANGED <<nodes, i2c_request, i2c_response, i2c_timestamp, frame, error,
                   cap_samples>>
    /\ UNCHANGED busvars
    /\ PollStep

\* ------------------------------------------------------------ the capture API

\* the API runs while the polling task is suspended: in a read, a transmit
\* or the sleep between two cycles, or once the task has ended

\* a capture that starts whenever the node is api-valid
StartWheneverValid(flag, api_valid_flag) == api_valid_flag

\* lines 686 and 697: a capture starts on an api-valid node that is not
\* capturing that level already
CanStartCapture(flag, api_valid_flag) == flag = FALSE /\ api_valid_flag

start_capture_enter_at_level(k) ==
    LET granted == CanStartCapture(nodes[k].cap_enter_at_flag,
                                 nodes[k].api_valid_flag)
    IN  /\ pc # "loop"
        /\ nodes' = IF granted
                    THEN [nodes EXCEPT ![k].cap_enter_at_total = 0,
                                       ![k].cap_enter_at_count = 0,
                                       ![k].cap_enter_at_millis =
                                           now + CAP_ENTER_EXIT_AT_MILLIS,
                                       ![k].cap_enter_at_flag = TRUE]
                    ELSE nodes
        /\ cap_samples' = IF granted THEN [cap_samples EXCEPT ![k] = {}]
                           ELSE cap_samples
        /\ api_ret' = Returned("start_capture_enter_at_level", k, granted)
        /\ UNCHANGED <<now, i2c_request, i2c_response, i2c_timestamp, pc, idx,
                       upd_list, cross_list, nadir_bound, frame, error, events,
                       seen, wire>>
        /\ UNCHANGED busvars

start_capture_exit_at_level(k) ==
    LET granted == CanStartCapture(nodes[k].cap_exit_at_flag,
                                 nodes[k].api_valid_flag)
    IN  /\ pc # "loop"
        /\ nodes' = IF granted
                    THEN [nodes EXCEPT ![k].cap_exit_at_total = 0,
                                       ![k].cap_exit_at_count = 0,
                                       ![k].cap_exit_at_millis =
                                           now + CAP_ENTER_EXIT_AT_MILLIS,
                                       ![k].cap_exit_at_flag = TRUE]
                    ELSE nodes
        /\ api_ret' = Returned("start_capture_exit_at_level", k, granted)
        /\ UNCHANGED <<now, i2c_request, i2c_response, i2c_timestamp, pc, idx,
                       upd_list, cross_list, nadir_bound, frame, error, events,
                       seen, cap_samples, wire>>
        /\ UNCHANGED busvars

\* ------------------------------------------------------------ the configuration API

\* the API calls below touch the bus; they are taken whole, at a time the
\* polling task is not in update(): before start(), in the sleep between two
\* cycles, or once the task has ended.  MaxApiCalls of them are followed
ApiMayCall ==
    /\ pc \in {"init", "sleep", "dead"}
    /\ api_ret.seq < MaxApiCalls

\* pack_8, pack_16 and pack_32 by the width of the value
Pack(width, v) ==
    CASE width = 8  -> pack_8(v)
      [] width = 16 -> pack_16(v)
      [] width = 32 -> pack_32(v)

\* unpack_32 in two halves of 16 bits, the value being 65536 * hi + lo: a
\* value of 32 bits is beyond the integers of the model checker
Halves(data) == <<unpack_16(SubSeq(data, 1, 2)), unpack_16(SubSeq(data, 3, 4))>>

\* a value handed to set_and_validate_value_32, in the same halves
HalvesOf(v) == <<v \div 65536, v % 65536>>

\* get_value_8, get_value_16 and get_value_32: the value of the block a read
\* returned, None when it returned no block
get_value(width, data) ==
    IF data = NoData THEN None
    ELSE CASE width = 8  -> unpack_8(data)
           [] width = 16 -> unpack_16(data)
           [] width = 32 -> Halves(data)

\* in_value in the form get_value gives a value of that width
AsValue(width, v) == IF width = 32 THEN HalvesOf(v) ELSE v

\* lines 455-456: what write_block hands the bus, the data followed by the
\* command and by the checksum of both
WriteFrame(offset, data) ==
    data \o <<offset>> \o <<SumSeq(data \o <<offset>>) % 256>>

\* the bytes a node keeps of a value written to it
Stored(width, v) == [i \in 1..(width \div 8) |-> Pack(width, v)[i] % 256]

\* the same with the last byte off by one
Altered(width, v) ==
    [Stored(width, v) EXCEPT ![width \div 8] = (@ + 1) % 256]

\* what the bus does to the read-back of one round: the node echoes what it
\* keeps, or something else, or every attempt fails by IOError, or the echo
\* is damaged on every attempt
ReadBackKinds == {"good", "wrong", "none", "damaged"}

ReadBack(kind, width, v) ==
    CASE kind = "good"    -> <<Answer(WithChecksum(Stored(width, v)))>>
      [] kind = "wrong"   -> <<Answer(WithChecksum(Altered(width, v)))>>
      [] kind = "none"    -> [k \in 1..I2C_RETRY_COUNT |-> IoError]
      [] kind = "damaged" ->
             [k \in 1..I2C_RETRY_COUNT |-> Answer(Corrupted(Stored(width, v)))]

\* the rounds of a call: the node echoes in every round; or from the second
\* round on; or never
ReadBackRuns ==
    { <<"good">>, <<"damaged">>, <<"wrong", "good">>,
      [k \in 1..I2C_RETRY_COUNT |-> "wrong"],
      [k \in 1..I2C_RETRY_COUNT |-> "none"],
      [k \in 1..I2C_RETRY_COUNT |->
          IF k < I2C_RETRY_COUNT THEN "wrong" ELSE "none"] }

\* what the bus does to the writes of a call: it takes each at once, or
\* every attempt fails by IOError
WriteFates == { <<Answer(NoData)>>, [k \in 1..I2C_RETRY_COUNT |-> IoError] }

\* what the bus does to a call: its writes are taken and the node echoes at
\* some round or never; or the node is off the bus, and writes and read-backs
\* all fail
ApiFates ==
    {[w |-> <<Answer(NoData)>>, run |-> run] :
        run \in {r \in ReadBackRuns : \E i \in 1..Len(r) : r[i] # "none"}}
    \cup {[w |-> w, run |-> run] :
             w \in {f \in WriteFates : f[1].io},
             run \in {r \in ReadBackRuns : \A i \in 1..Len(r) : r[i] = "none"}}

\* the widths and values set_and_validate_value_* is called with
SetInputs == {<<8, -1>>, <<16, -1>>, <<16, 95>>, <<32, -1>>}

WriteStart == [success |-> FALSE, retry_count |-> 0, ops |-> 0]

\* write_block: the loop run against the bus answers `ocs`
RECURSIVE write_block(_, _)
write_block(st, ocs) ==
    IF ~Retrying(st.success, st.retry_count) \/ ocs = <<>>
    THEN st
    ELSE write_block(WriteIter(st, Head(ocs)), Tail(ocs))

\* the comparison without the case of a negative value
MatchesExactly(width, out_value, in_value) ==
    out_value = AsValue(width, in_value)

\* lines 508, 526 and 544: whether the value read back confirms in_value
Matches(width, out_value, in_value) ==
    CASE width = 8  -> out_value = in_value
      [] width = 16 -> out_value = in_value \/ out_value = in_value + 65536
      [] width = 32 ->
             \/ out_value = HalvesOf(in_value)
             \/ out_value = <<HalvesOf(in_value)[1] + 65536,
                              HalvesOf(in_value)[2]>>

\* set_and_validate_value_*: the state of a call before its first round
SetStart ==
    [success |-> FALSE, retry_count |-> 0, out_value |-> None, got |-> FALSE,
     rounds |-> 0, now |-> now, i2c_request |-> i2c_request, i2c_response |-> i2c_response,
     wire |-> <<>>, log |-> <<>>]

\* one round of the loop: the write, the read-back and the comparison
SetIter(c, st, kind) ==
    LET w   == write_block(WriteStart, c.wfate)
        r   == read_block(ReadStart(st.now, st.i2c_request, st.i2c_response),
                          ReadBack(kind, c.width, c.in_value), RttMs)
        out == get_value(c.width, r.data)
        s1  == [st EXCEPT
                  !.out_value = out,
                  !.got = r.data # NoData,
                  !.rounds = @ + 1,
                  !.now = r.now,
                  !.i2c_request = r.i2c_request,
                  !.i2c_response = r.i2c_response,
                  !.wire = @ \o
                      <<[op |-> "write", addr |-> c.addr, cmd |-> c.write_command,
                         data |-> WriteFrame(c.write_command,
                                             Pack(c.width, c.in_value)),
                         ok |-> w.success],
                        [op |-> "read", addr |-> c.addr, cmd |-> c.read_command,
                         data |-> r.data, ok |-> r.success]>>]
    IN  IF r.data # NoData /\ Matches(c.width, out, c.in_value)
        THEN [s1 EXCEPT !.success = TRUE]
        ELSE [s1 EXCEPT !.retry_count = @ + 1,
                        !.log = Append(@, st.retry_count + 1)]

\* the loop of lines 504, 521 and 539 run against the rounds of `run`, the
\* last of which repeats for as long as the loop goes on
RECURSIVE SetLoop(_, _, _)
SetLoop(c, st, run) ==
    IF ~Retrying(st.success, st.retry_count)
    THEN st
    ELSE SetLoop(c, SetIter(c, st, Head(run)),
                 IF Len(run) > 1 THEN Tail(run) ELSE run)

\* in_value handed back whatever was read
ResultAsWritten(width, got, out_value, in_value) == AsValue(width, in_value)

\* lines 514-516: the value returned, in_value when the last read-back
\* returned None (got is whether it returned a block)
Result(width, got, out_value, in_value) ==
    IF got THEN out_value ELSE AsValue(width, in_value)

\* set_and_validate_value_8, _16 and _32: the call c run against the bus
set_and_validate_value(c, run) ==
    LET st == SetLoop(c, SetStart, run)
    IN  [value |-> Result(c.width, st.got, st.out_value, c.in_value),
         st |-> st]

\* lines 602-606: the width by the API level; nothing is returned
set_and_validate_value_rssi(node, write_command, read_command, in_value, wfate, run) ==
    LET r == set_and_validate_value(
                 [width |-> IF node.api_level >= 18 THEN 8 ELSE 16,
                  addr |-> node.i2c_addr, write_command |-> write_command,
                  read_command |-> read_command, in_value |-> in_value,
                  wfate |-> wfate], run)
    IN  [r EXCEPT !.value = None]

\* an API call that left the bus alone
NoTraffic ==
    [success |-> FALSE, retry_count |-> 0, out_value |-> None, got |-> FALSE,
     rounds |-> 0, now |-> now, i2c_request |-> i2c_request, i2c_response |-> i2c_response,
     wire |-> <<>>, log |-> <<>>]

\* the API call returns: its answer and what it did on the bus
ApiReturn(call, k, arg, value, err, st) ==
    /\ api_ret' = [call |-> call, node |-> k, arg |-> arg, value |-> value,
                   error |-> err, log |-> st.log, rounds |-> st.rounds,
                   seq |-> api_ret.seq + 1]
    /\ wire' = st.wire
    /\ now' = st.now
    /\ i2c_request' = st.i2c_request
    /\ i2c_response' = st.i2c_response
    /\ i2c_timestamp' = IF st.wire = <<>> THEN i2c_timestamp ELSE st.now
    /\ last_end' = IF st.wire = <<>> THEN last_end ELSE st.now
    /\ UNCHANGED <<pc, idx, upd_list, cross_list, nadir_bound, frame, error,
                   events, seen, cap_samples, semaphore, tasks, discovered,
                   rev_read, device>>

\* the frequency a node is sent as it is given
FrequencyAsGiven(frequency) == frequency

\* lines 622-631: the frequency a node is sent, the default for frequency 0
FrequencyToWrite(frequency) ==
    IF frequency # 0 THEN frequency ELSE DefaultFrequency

\* lines 619-632; node.debug_pass_count, which the interface never reads, is
\* left out
set_frequency(k, frequency, wfate, run) ==
    LET r == set_and_validate_value(
                 [width |-> 16, addr |-> nodes[k].i2c_addr,
                  write_command |-> WRITE_FREQUENCY,
                  read_command |-> READ_FREQUENCY,
                  in_value |-> FrequencyToWrite(frequency),
                  wfate |-> wfate], run)
    IN  /\ ApiMayCall
        /\ nodes' = [nodes EXCEPT ![k].frequency =
                        IF frequency # 0 THEN r.value ELSE 0]
        /\ ApiReturn("set_frequency", k, frequency, None, "", r.st)

\* lines 640-643
set_enter_at_level(k, level, wfate, run) ==
    LET r == set_and_validate_value_rssi(nodes[k], WRITE_ENTER_AT_LEVEL,
                                         READ_ENTER_AT_LEVEL, level, wfate, run)
    IN  /\ ApiMayCall
        /\ IF nodes[k].api_valid_flag
           THEN /\ nodes' = [nodes EXCEPT ![k].enter_at_level = r.value]
                /\ ApiReturn("set_enter_at_level", k, level, None, "", r.st)
           ELSE /\ nodes' = nodes
                /\ ApiReturn("set_enter_at_level", k, level, None, "", NoTraffic)

\* lines 651-654
set_exit_at_level(k, level, wfate, run) ==
    LET r == set_and_validate_value_rssi(nodes[k], WRITE_EXIT_AT_LEVEL,
                                         READ_EXIT_AT_LEVEL, level, wfate, run)
    IN  /\ ApiMayCall
        /\ IF nodes[k].api_valid_flag
           THEN /\ nodes' = [nodes EXCEPT ![k].exit_at_level = r.value]
                /\ ApiReturn("set_exit_at_level", k, level, None, "", r.st)
           ELSE /\ nodes' = nodes
                /\ ApiReturn("set_exit_at_level", k, level, None, "", NoTraffic)

\* set_and_validate_value_8, _16 or _32 called on the enter-at level of
\* node k
SetAndValidate(k, width, in_value, wfate, run) ==
    LET r == set_and_validate_value(
                 [width |-> width, addr |-> nodes[k].i2c_addr,
                  write_command |-> WRITE_ENTER_AT_LEVEL,
                  read_command |-> READ_ENTER_AT_LEVEL,
                  in_value |-> in_value, wfate |-> wfate], run)
    IN  /\ ApiMayCall
        /\ nodes' = nodes
        /\ ApiReturn("set_and_validate_value", k, <<width, in_value>>,
                     r.value, "", r.st)

\* lines 668-671: the name MARK_START_TIME is bound nowhere, so the call of
\* set_value_32 raises NameError while its arguments are evaluated
mark_start_time(ns, node_index) ==
    IF node_index + 1 > Len(ns) THEN "IndexError"
    ELSE IF ns[node_index + 1].api_valid_flag THEN "NameError"
    ELSE ""

\* lines 676-682, from node i on: the exception that ends the loop, if any;
\* line 680 raises NameError the same way
RECURSIVE MarkLoop(_, _)
MarkLoop(ns, i) ==
    IF i > Len(ns) THEN ""
    ELSE IF ns[1].api_level >= 15 THEN "NameError"
    ELSE IF mark_start_time(ns, ns[i].index) # ""
         THEN mark_start_time(ns, ns[i].index)
         ELSE MarkLoop(ns, i + 1)

\* lines 673-682: no write is issued before the exception, or at all
mark_start_time_global(start_time) ==
    /\ ApiMayCall
    /\ nodes' = nodes
    /\ ApiReturn("mark_start_time_global", 0, start_time, None,
                 MarkLoop(nodes, 1), NoTraffic)

\* ------------------------------------------------------------ specification

\* the sleep between two poll cycles ends at the first multiple of `step`
\* that is UPDATE_SLEEP or more away
SleepChoices(step) ==
    {d \in UPDATE_SLEEP..(UPDATE_SLEEP + step - 1) : (now + d) % step = 0}

\* the polling task alone, every bus answer taking RttMs milliseconds
Next ==
    \/ PollRead
    \/ PollProcess({RttMs}, "poll")
    \/ PollDispatch
    \/ \E d \in SleepChoices(UPDATE_SLEEP) : UpdateSleep(d, MaxTime)

Spec == Init /\ [][Next]_vars

\* the buses levels are captured on: one node, at API level 18, 13 or 10 or
\* with a revision code that fails the verification
CaptureBusChoices ==
    { Bus({12}, <<Rev(18)>>), Bus({12}, <<Rev(13)>>), Bus({12}, <<Rev(10)>>),
      Bus({12}, <<Unverified(18)>>) }

InitCapture == InitOn(CaptureBusChoices)

\* the polling task, a poll cycle every CaptureStep milliseconds, and the
\* capture calls of the API between its suspension points
NextCapture ==
    \/ PollRead
    \/ PollProcess({RttMs}, "capture")
    \/ PollXmitEnter
    \/ PollXmitExit
    \/ PollDispatch
    \/ \E d \in SleepChoices(CaptureStep) : UpdateSleep(d, MaxCaptureTime)
    \/ \E k \in NodeIds : start_capture_enter_at_level(k)
    \/ \E k \in NodeIds : start_capture_exit_at_level(k)

SpecCapture == InitCapture /\ [][NextCapture]_vars

\* the buses of scenario S4: one api-valid node, at API level 18 or 10
S4BusChoices == { Bus({12}, <<Rev(18)>>), Bus({12}, <<Rev(10)>>) }

InitS4 == InitOn(S4BusChoices)

\* scenario S4: a poll cycle every S4Step milliseconds, and the enter-at
\* capture started between the polling task's suspension points
NextS4 ==
    \/ PollRead
    \/ PollProcess({RttMs}, "s4")
    \/ PollXmitEnter
    \/ PollDispatch
    \/ \E d \in SleepChoices(S4Step) : UpdateSleep(d, MaxS4Time)
    \/ \E k \in NodeIds : start_capture_enter_at_level(k)

SpecS4 == InitS4 /\ [][NextS4]_vars

\* the buses every API level is polled on: levels 18, 17 and 13, whose
\* frames the newer layouts describe, levels 12 and 5, and level 4, the
\* highest that is asked for the legacy frame
LevelBusChoices ==
    { Bus({8, 10}, <<Rev(18), Rev(17)>>),
      Bus({8, 10}, <<Rev(5), Rev(13)>>),
      Bus({10, 12}, <<Rev(4), Rev(12)>>) }

InitLevels == Constructed(LevelBusChoices, "init")

\* the bus when set_frequency is called between poll cycles: the node
\* echoes the frequency, or is off the bus
FrequencyFates ==
    {f \in ApiFates : f.run = <<"good">> \/ f.w[1].io}

\* the polling task of nodes at every API level, a poll cycle every
\* UPDATE_SLEEP, with set_frequency called before start() and between the
\* cycles
NextLevels ==
    \/ start
    \/ PollRead
    \/ PollProcess({RttMs}, "levels")
    \/ PollDispatch
    \/ \E d \in SleepChoices(UPDATE_SLEEP) : UpdateSleep(d, MaxLevelsTime)
    \/ \E k \in NodeIds : \E frequency \in {0, 5658} :
          \E f \in FrequencyFates : set_frequency(k, frequency, f.w, f.run)

SpecLevels == InitLevels /\ [][NextLevels]_vars

\* the bus the history is looked at on: one node at API level 18
HistoryBusChoices == { Bus({12}, <<Rev(18)>>) }

InitHistory == InitOn(HistoryBusChoices)

\* the polling task alone, the node's frames carrying history samples
NextHistory ==
    \/ PollRead
    \/ PollProcess({RttMs}, "history")
    \/ PollDispatch
    \/ \E d \in SleepChoices(UPDATE_SLEEP) : UpdateSleep(d, MaxHistoryTime)

SpecHistory == InitHistory /\ [][NextHistory]_vars

\* the buses the configuration API is called on: nodes at API levels 18 and
\* 10; one node at API level 10; and, the first address not answering, a
\* node at API level 10 and one whose revision code fails the verification
ApiBusChoices ==
    { Bus({8, 10}, <<Rev(18), Rev(10)>>),
      Bus({8}, <<Rev(10)>>),
      Bus({10, 12}, <<Rev(10), 0>>) }

\* the interface is constructed and start() has not been called
InitApi == Constructed(ApiBusChoices, "init")

\* the calls of the configuration API, one after the other
NextApi ==
    \/ \E k \in NodeIds : \E frequency \in {0, 5658} : \E f \in ApiFates :
             set_frequency(k, frequency, f.w, f.run)
    \/ \E k \in NodeIds : \E f \in ApiFates :
             set_enter_at_level(k, 95, f.w, f.run)
    \/ \E k \in NodeIds : \E f \in ApiFates :
             set_exit_at_level(k, 85, f.w, f.run)
    \/ \E in \in SetInputs : \E f \in ApiFates :
             SetAndValidate(1, in[1], in[2], f.w, f.run)
    \/ mark_start_time_global(1000)

SpecApi == InitApi /\ [][NextApi]_vars

\* ------------------------------------------------------------ concurrent calls, operation by operation

\* the greenlets that call set_frequency while the polling task runs
Callers == {"a", "b"}

Greenlets == Callers \cup {"poll"}

\* a greenlet outside the transactor; `node` and `in_value` are the
\* arguments of its call of set_and_validate_value_16 and `rounds` is the
\* retry_count of that call (lines 519-531); `sent` and `answered` are the
\* times the bus operation that gave `data` began and ended
Resting ==
    [pc |-> "idle", kind |-> "none", success |-> FALSE, retry_count |-> 0,
     data |-> NoData, ops |-> 0, start |-> 0, wake |-> 0, fails |-> {},
     node |-> 0, in_value |-> 0, rounds |-> 0, sent |-> 0, answered |-> 0]

\* a greenlet is in a blocking bus operation: no other greenlet runs
Blocking == \E t \in DOMAIN tasks : tasks[t].pc = "io"

\* what the bus may answer an operation with: `fates` are the answers a
\* read gets ("ok", "io", "crc") and the node sends `payload`
Answers(kind, fates, payload) ==
    IF kind = "write"
    THEN {Answer(NoData)} \cup (IF "io" \in fates THEN {IoError} ELSE {})
    ELSE (IF "ok" \in fates THEN {Answer(WithChecksum(payload))} ELSE {})
         \cup (IF "io" \in fates THEN {IoError} ELSE {})
         \cup (IF "crc" \in fates THEN {Answer(Corrupted(payload))} ELSE {})

\* lines 619-624 and 522: set_frequency(k, frequency) is called with a
\* frequency other than 0 and comes to the semaphore of its first write_block
CallSetFrequency(c, k, frequency) ==
    /\ tasks[c].pc = "idle"
    /\ frequency # 0
    /\ tasks' = [tasks EXCEPT ![c] =
                    [Resting EXCEPT !.pc = "acquire", !.kind = "write",
                                    !.node = k, !.in_value = frequency]]
    /\ UNCHANGED <<now, i2c_request, i2c_response, i2c_timestamp, semaphore,
                   last_end, discovered, rev_read, device>>
    /\ UNCHANGED pollvars
    /\ UNCHANGED apivars

\* lines 205-216: update() calls read_block for node idx and comes to the
\* semaphore
PollCalls ==
    /\ pc = "read"
    /\ tasks["poll"].pc = "idle"
    /\ tasks' = [tasks EXCEPT !["poll"] =
                    [Resting EXCEPT !.pc = "acquire", !.kind = "read",
                                    !.node = idx]]
    /\ UNCHANGED <<now, i2c_request, i2c_response, i2c_timestamp, semaphore,
                   last_end, discovered, rev_read, device>>
    /\ UNCHANGED pollvars
    /\ UNCHANGED apivars

\* line 413: the host sleeps until gevent.sleep of the greenlet inside the
\* semaphore is over
ChillPasses ==
    /\ \E t \in DOMAIN tasks :
          /\ tasks[t].pc = "chill"
          /\ now < tasks[t].wake
          /\ now' = tasks[t].wake
    /\ UNCHANGED <<i2c_request, i2c_response, i2c_timestamp>>
    /\ UNCHANGED busvars
    /\ UNCHANGED pollvars
    /\ UNCHANGED apivars

\* the state of read_block of greenlet t after the operation in flight got
\* the answer `oc`
ReadOf(t, oc) ==
    ReadIter([success |-> tasks[t].success,
              retry_count |-> tasks[t].retry_count,
              data |-> tasks[t].data, ops |-> tasks[t].ops,
              now |-> tasks[t].start, i2c_request |-> i2c_request,
              i2c_response |-> i2c_response, log |-> <<>>],
             oc, RttMs)

\* the greenlet after an attempt of read_block that got the answer `oc`
AfterRead(t, rd, oc) ==
    [tasks[t] EXCEPT !.success = rd.success, !.retry_count = rd.retry_count,
                     !.data = rd.data, !.ops = rd.ops, !.start = 0,
                     !.sent = IF oc.io THEN @ ELSE tasks[t].start,
                     !.answered = IF oc.io THEN @ ELSE rd.now]

\* lines 459-474: the write of caller c ends with the answer `oc`.  The node
\* keeps the value of a write that reached it.  write_block tries again
\* after an IOError; when it returns, get_value_16 calls read_block
\* (lines 522-523), which comes to the semaphore
WriteDone(c, oc) ==
    LET me    == tasks[c]
        st    == WriteIter(me, oc)
        again == Retrying(st.success, st.retry_count)
        t_end == IF oc.io THEN now ELSE now + RttMs
    IN  /\ me.pc = "io"
        /\ me.kind = "write"
        /\ tasks' = [tasks EXCEPT ![c] =
                        IF again
                        THEN [st EXCEPT !.pc = "acquire", !.start = 0,
                                        !.fails = @ \cup {"io"}]
                        ELSE [st EXCEPT !.pc = "acquire", !.kind = "read",
                                        !.success = FALSE, !.retry_count = 0,
                                        !.data = NoData, !.start = 0,
                                        !.fails = @ \cup (IF oc.io THEN {"io"}
                                                          ELSE {})]]
        /\ device' = IF oc.io THEN device
                     ELSE [device EXCEPT ![me.node] =
                              unpack_16(Stored(16, me.in_value))]
        /\ semaphore' = Released(c, oc)
        /\ now' = t_end
        /\ i2c_timestamp' = t_end
        /\ last_end' = t_end
        /\ UNCHANGED <<i2c_request, i2c_response, discovered, rev_read>>
        /\ UNCHANGED pollvars
        /\ UNCHANGED apivars

\* an attempt of read_block of greenlet t failed and another follows: the
\* greenlet comes to the semaphore again (lines 420-422)
ReadAgain(t, oc) ==
    LET rd == ReadOf(t, oc)
    IN  /\ tasks[t].pc = "io"
        /\ tasks[t].kind = "read"
        /\ Retrying(rd.success, rd.retry_count)
        /\ tasks' = [tasks EXCEPT ![t] =
                        [AfterRead(t, rd, oc) EXCEPT
                            !.pc = "acquire",
                            !.fails = @ \cup {IF oc.io THEN "io" ELSE "crc"}]]
        /\ semaphore' = Released(t, oc)
        /\ now' = rd.now
        /\ i2c_timestamp' = rd.now
        /\ last_end' = rd.now
        /\ i2c_request' = rd.i2c_request
        /\ i2c_response' = rd.i2c_response
        /\ UNCHANGED <<discovered, rev_read, device>>
        /\ UNCHANGED pollvars
        /\ UNCHANGED apivars

\* lines 523-534 and 623: read_block of caller c returns, get_value_16
\* unpacks the block and the loop of set_and_validate_value_16 compares it
\* with in_value.  The call goes round the loop, to the semaphore of the
\* next write_block, or returns, and set_frequency stores what it returned
ReadBackDone(c, oc) ==
    LET me     == tasks[c]
        rd     == ReadOf(c, oc)
        out    == get_value(16, rd.data)
        got    == rd.data # NoData
        ok     == got /\ Matches(16, out, me.in_value)
        rounds == IF ok THEN me.rounds ELSE me.rounds + 1
        failed == IF rd.success THEN {} ELSE {IF oc.io THEN "io" ELSE "crc"}
    IN  /\ me.pc = "io"
        /\ me.kind = "read"
        /\ ~Retrying(rd.success, rd.retry_count)
        /\ IF Retrying(ok, rounds)
           THEN /\ tasks' = [tasks EXCEPT ![c] =
                               [AfterRead(c, rd, oc) EXCEPT
                                   !.pc = "acquire", !.kind = "write",
                                   !.success = FALSE, !.retry_count = 0,
                                   !.data = NoData, !.rounds = rounds,
                                   !.fails = @ \cup failed]]
                /\ nodes' = nodes
           ELSE /\ tasks' = [tasks EXCEPT ![c] =
                               [AfterRead(c, rd, oc) EXCEPT
                                   !.pc = "done", !.rounds = rounds,
                                   !.fails = @ \cup failed]]
                /\ nodes' = [nodes EXCEPT ![me.node].frequency =
                                Result(16, got, out, me.in_value)]
        /\ semaphore' = Released(c, oc)
        /\ now' = rd.now
        /\ i2c_timestamp' = rd.now
        /\ last_end' = rd.now
        /\ i2c_request' = rd.i2c_request
        /\ i2c_response' = rd.i2c_response
        /\ UNCHANGED <<pc, idx, upd_list, cross_list, nadir_bound, frame, error,
                       events, seen, cap_samples>>
        /\ UNCHANGED <<discovered, rev_read, device>>
        /\ UNCHANGED apivars

\* lines 205-377: read_block of the polling task returns and update()
\* processes what it returned, up to the next suspension point
PollReturns(oc) ==
    LET rd == ReadOf("poll", oc)
    IN  /\ tasks["poll"].pc = "io"
        /\ ~Retrying(rd.success, rd.retry_count)
        /\ tasks' = [tasks EXCEPT !["poll"] =
                        [AfterRead("poll", rd, oc) EXCEPT
                            !.pc = "idle",
                            !.fails = @ \cup (IF rd.success THEN {}
                                              ELSE IF oc.io THEN {"io"}
                                              ELSE {"crc"})]]
        /\ semaphore' = Released("poll", oc)
        /\ ProcessRead(rd)

\* what a node answers the read in flight of greenlet t with: the
\* frequency it holds or, to the polling task, its LapStats frame, which has
\* no lap, no crossing, and a peak whose sample has the time the frame was
\* read at
Sends(t) ==
    LET node == nodes[tasks[t].node]
    IN  IF t = "poll"
        THEN Payloads(node.api_level, LapStatsSize(node),
                      {[Fields(0, 20000, 100, 0) EXCEPT !.peak = 150]})
        ELSE {pack_16(device[tasks[t].node])}

\* the answers to the operation in flight of greenlet t
AnswersTo(t, fates) ==
    IF tasks[t].pc = "io"
    THEN UNION {Answers(tasks[t].kind, fates, payload) : payload \in Sends(t)}
    ELSE {}

\* the buses the calls are followed on: one node, at API level 18 or 17
SharedBusChoices == { Bus({12}, <<Rev(18)>>), Bus({12}, <<Rev(17)>>) }

InitShared ==
    /\ Built(SharedBusChoices, "loop")
    /\ tasks = [t \in Greenlets |-> Resting]

\* the polling task and the callers in `cs`, run by the cooperative
\* scheduler, the callers calling set_frequency with 5658 or 5695: a
\* greenlet runs until it waits for the semaphore or sleeps, and while one
\* is in a bus operation no other runs.  `fates` are the
\* answers the bus may give the callers (never a failure: {"ok"}) and
\* `pfates` those it may give the polling task
NextShared(cs, fates, pfates) ==
    \/ \E c \in cs : \E k \in NodeIds : \E f \in {5658, 5695} :
          ~Blocking /\ CallSetFrequency(c, k, f)
    \/ ~Blocking /\ PollRead
    \/ ~Blocking /\ PollCalls
    \/ \E t \in Greenlets : ~Blocking /\ Acquire(t)
    \/ ~Blocking /\ ChillPasses
    \/ \E t \in Greenlets : Wake(t)
    \/ \E c \in cs : \E oc \in AnswersTo(c, fates) : WriteDone(c, oc)
    \/ \E c \in cs : \E oc \in AnswersTo(c, fates) : ReadBackDone(c, oc)
    \/ \E oc \in AnswersTo("poll", pfates) : PollReturns(oc)
    \/ ~Blocking /\ PollDispatch
    \/ \E d \in SleepChoices(UPDATE_SLEEP) :
          ~Blocking /\ UpdateSleep(d, MaxSharedTime)

\* concurrent calls of set_frequency and the polling task on a bus that
\* never fails
SpecFrequency == InitShared /\ [][NextShared(Callers, {"ok"}, {"ok"})]_vars

\* the polling task and one caller of set_frequency on a bus where the
\* reads of the polling task may fail: an attempt of its read_block ends by
\* an IOError or with a block whose checksum is wrong, and another follows
NextStamps ==
    \/ NextShared({"a"}, {"ok"}, {"ok", "io", "crc"})
    \/ \E oc \in AnswersTo("poll", {"ok", "io", "crc"}) : ReadAgain("poll", oc)

SpecStamps == InitShared /\ [][NextStamps]_vars


\* ------------------------------------------------------------ properties of the bus transactor

\* the tasks with an operation on the bus
InFlight == {t \in Tasks : tasks[t].pc = "io"}

\* C1: under any interleaving of the polling task with the API calls and
\* the sensor sampling, at no time are two bus operations (block read, block
\* write or sensor sample) in flight together
C1_OneOperationInFlight == Cardinality(InFlight) <= 1

\* discovery is over, the polling task has a read on the bus, and the API
\* and the sensor task both wait at the semaphore
C1_Witness ==
    /\ discovered
    /\ tasks["poll"].pc = "io" /\ tasks["poll"].kind = "read"
    /\ tasks["api"].pc = "acquire" /\ tasks["api"].kind = "write"
    /\ tasks["env"].pc = "acquire"
    /\ semaphore = "poll"

\* C2: an attempt on the bus starts no earlier than I2C_CHILL_TIME after the
\* attempt before it ended, whichever task made that and however it ended;
\* only the very first attempt, made before any has ended, is exempt
C2_QuietTime ==
    \A t \in Tasks :
        tasks[t].pc = "io" =>
            \/ last_end = -1
            \/ tasks[t].start - last_end >= I2C_CHILL_TIME

\* an attempt starts exactly I2C_CHILL_TIME after the failed attempt of
\* another task
C2_Witness ==
    \E t, u \in Tasks :
        /\ t # u
        /\ tasks[t].pc = "io"
        /\ last_end # -1
        /\ tasks[t].start - last_end = I2C_CHILL_TIME
        /\ tasks[t].ops = 0
        /\ tasks[u].pc = "acquire" /\ tasks[u].fails # {}

\* C3: a call of read_block or write_block puts at most I2C_RETRY_COUNT
\* operations on the bus, whatever the bus answers, and has returned once
\* its retries are used up
C3_BoundedAttempts ==
    \A t \in Tasks :
        tasks[t].kind \in {"read", "write"} =>
            /\ tasks[t].ops <= I2C_RETRY_COUNT
            /\ tasks[t].retry_count >= I2C_RETRY_COUNT => tasks[t].pc = "idle"

\* a read_block that has returned after I2C_RETRY_COUNT operations, some
\* failed by I/O error and some by checksum, and a write_block that has
\* returned after I2C_RETRY_COUNT failed writes
C3_Witness ==
    /\ tasks["poll"].kind = "read" /\ tasks["poll"].pc = "idle"
    /\ tasks["poll"].ops = I2C_RETRY_COUNT
    /\ tasks["poll"].fails = {"io", "crc"}
    /\ ~tasks["poll"].success

\* C4: read_block returns bytes only when a checksum validated, and then the
\* payload without the checksum byte; when every attempt failed it returns
\* None
C4_ValidatedOrNone ==
    \A t \in Tasks :
        (tasks[t].kind = "read" /\ tasks[t].pc = "idle") =>
            IF tasks[t].success
            THEN tasks[t].data = BusPayload
            ELSE tasks[t].data = NoData

\* ------------------------------------------------------------ properties of the polling task

\* the RSSI of a LapStats frame, as the wire format of the API level has it
RssiOf(api_level, data) ==
    IF api_level >= 18 THEN At(data, 3) ELSE unpack_16(From(data, 5))

\* the frame node k sent in this cycle was validated and its RSSI is in
\* [1, 999]
FrameAccepted(k) ==
    /\ seen[k].read = "ok"
    /\ RssiOf(nodes[k].api_level, seen[k].data) \in 1..999

FrameLapId(k) == At(seen[k].data, 0)

FrameCrossing(k) ==
    At(seen[k].data, IF nodes[k].api_level >= 18 THEN 8 ELSE 15) # 0

\* update() has been left, by return or by an exception
CycleEnded == pc \in {"sleep", "dead"}

\* the invocations of callback cb for node k since the cycle began
Invocations(cb, k) ==
    {j \in 1..Len(events) : events[j].cb = cb /\ events[j].node = k}

\* C5: a node whose last_lap_id is -1 when the cycle begins gets no
\* pass_record callback in that cycle, and its last_lap_id is the frame's
\* lap_id when the cycle ends
C5_FirstObservation ==
    CycleEnded =>
        \A k \in NodeIds :
            (FrameAccepted(k) /\ seen[k].last_lap_id = -1) =>
                /\ Invocations("pass_record", k) = {}
                /\ nodes[k].last_lap_id = FrameLapId(k)

\* C6: within one poll cycle every node_crossing callback precedes every
\* pass_record callback, the crossing callbacks come in the order of the
\* nodes, and the pass_record callbacks come in ascending order of the nodes'
\* lap_ms_since_start
C6_CallbackOrder ==
    \A i, j \in 1..Len(events) :
        i < j =>
            /\ events[j].cb = "node_crossing" => events[i].cb # "pass_record"
            /\ (events[i].cb = "node_crossing" /\ events[j].cb = "node_crossing")
                  => events[i].node < events[j].node
            /\ (events[i].cb = "pass_record" /\ events[j].cb = "pass_record")
                  => nodes[events[i].node].lap_ms_since_start
                       <= nodes[events[j].node].lap_ms_since_start

\* both nodes crossed and both have a new lap, the second node at 19800
\* and the first at 20000: the callbacks are crossing 1, crossing 2, lap 2,
\* lap 1
C6_Witness ==
    /\ pc = "sleep"
    /\ Len(nodes) = 2
    /\ nodes[1].lap_ms_since_start = 20000
    /\ nodes[2].lap_ms_since_start = 19800
    /\ [j \in 1..Len(events) |-> <<events[j].cb, events[j].node>>]
         = << <<"node_crossing", 1>>, <<"node_crossing", 2>>,
              <<"pass_record", 2>>, <<"pass_record", 1>> >>

\* C7: in every poll cycle a node whose frame was accepted gets exactly one
\* pass_record callback, with source LAP_SOURCE_REALTIME, if the frame's
\* lap_id differs from its last_lap_id and that is not -1, and none
\* otherwise; when the cycle ends its last_lap_id is the frame's lap_id
C7_OneCallbackPerNewLap ==
    CycleEnded =>
        \A k \in NodeIds :
            FrameAccepted(k) =>
                /\ Cardinality(Invocations("pass_record", k))
                     = IF FrameLapId(k) # seen[k].last_lap_id
                          /\ seen[k].last_lap_id # -1
                       THEN 1 ELSE 0
                /\ \A j \in Invocations("pass_record", k) :
                       events[j].source = LAP_SOURCE_REALTIME
                /\ nodes[k].last_lap_id = FrameLapId(k)

\* C8: for a node at API level 18 or above the lap time handed to
\* pass_record is the frame's lap differential plus half the round trip, both
\* in milliseconds (in units of 1 / (2 * MsPerSecond) ms: twice the
\* differential plus the round trip, times MsPerSecond)
C8_LapTimeMs ==
    \A j \in 1..Len(events) :
        (/\ events[j].cb = "pass_record"
         /\ nodes[events[j].node].api_level >= 18
         /\ FrameAccepted(events[j].node)) =>
            events[j].arg
              = (2 * unpack_16(From(seen[events[j].node].data, 1))
                 + seen[events[j].node].rtt) * MsPerSecond

\* C9: for an api-valid node whose frame was accepted, node_crossing is
\* invoked once in the cycle if the frame's crossing byte (zero or not)
\* differs from the node's crossing_flag and not at all if it repeats it; when
\* the cycle ends crossing_flag is the frame's crossing value
C9_OneCallbackPerCrossingChange ==
    CycleEnded =>
        \A k \in NodeIds :
            (nodes[k].api_valid_flag /\ FrameAccepted(k)) =>
                /\ Cardinality(Invocations("node_crossing", k))
                     = IF FrameCrossing(k) # seen[k].crossing_flag
                       THEN 1 ELSE 0
                /\ nodes[k].crossing_flag = FrameCrossing(k)

\* the frame read for node k in this step has an RSSI outside
\* [MIN_RSSI_VALUE, MAX_RSSI_VALUE]
RejectedIn(sn, k) ==
    /\ sn[k].data # NoData
    /\ RssiOf(nodes[k].api_level, sn[k].data)
         \notin MIN_RSSI_VALUE..MAX_RSSI_VALUE

\* C10: a frame whose RSSI is outside [MIN_RSSI_VALUE, MAX_RSSI_VALUE]
\* changes no field of its node (current_rssi, peaks and nadirs,
\* crossing_flag, lap_ms_since_start, last_lap_id, the capture totals and
\* counts, both history arrays), queues no lap and no crossing for it, and
\* produces a log entry; the cycle invokes no lap or crossing callback for
\* that node
C10_RejectedFrameChangesNothing ==
    /\ [][\A k \in NodeIds :
            (pc = "read" /\ pc' # "read" /\ idx = k /\ RejectedIn(seen', k)) =>
                /\ nodes' = nodes
                /\ upd_list' = upd_list
                /\ cross_list' = cross_list
                /\ events' = Append(events,
                                Event("RSSI out of range", k,
                                      RssiOf(nodes[k].api_level, seen'[k].data)))
         ]_vars
    /\ [](pc = "sleep" =>
            \A k \in NodeIds :
                RejectedIn(seen, k) =>
                    /\ Invocations("pass_record", k) = {}
                    /\ Invocations("node_crossing", k) = {}
                    /\ Invocations("RSSI out of range", k) # {})

\* a node at API level 18 that is capturing both levels and has history
\* samples was sent a frame with RSSI 0, a new lap_id, the crossing byte set
\* and history samples; the cycle has ended
C10_Witness ==
    /\ pc = "sleep"
    /\ \E k \in NodeIds :
           /\ nodes[k].api_level >= 18
           /\ seen[k].read = "ok"
           /\ RejectedIn(seen, k)
           /\ FrameLapId(k) # nodes[k].last_lap_id
           /\ FrameCrossing(k) # nodes[k].crossing_flag
           /\ nodes[k].cap_enter_at_flag /\ nodes[k].cap_enter_at_count > 0
           /\ nodes[k].cap_exit_at_flag /\ nodes[k].cap_exit_at_count > 0
           /\ nodes[k].history_values # <<>>
           /\ Invocations("RSSI out of range", k) # {}

\* ------------------------------------------------------------ properties of the level capture

\* the smallest and the largest of a set of samples
MinSample(S) == CHOOSE x \in S : \A y \in S : x <= y

MaxSample(S) == CHOOSE x \in S : \A y \in S : x >= y

\* node k's enter-at capture has just completed: update() is at line 304
\* and no new capture has been started
EnterCaptureDone(k) ==
    pc = "xmit_enter" /\ idx = k /\ ~nodes[k].cap_enter_at_flag

\* C11 as stated: the enter_at_level of a completed enter-at capture lies
\* between the smallest and the largest sample of the capture and, when
\* node_peak_rssi > 0, is ENTER_AT_PEAK_MARGIN or more below node_peak_rssi
C11_Original ==
    \A k \in NodeIds :
        EnterCaptureDone(k) =>
            /\ MinSample(cap_samples[k]) <= nodes[k].enter_at_level
            /\ nodes[k].enter_at_level <= MaxSample(cap_samples[k])
            /\ nodes[k].node_peak_rssi > 0 =>
                   nodes[k].node_peak_rssi - nodes[k].enter_at_level
                       >= ENTER_AT_PEAK_MARGIN

\* C11: the enter_at_level of a completed enter-at capture is at most the
\* largest sample of the capture; it is at least the smallest sample unless
\* it was lowered to node_peak_rssi - ENTER_AT_PEAK_MARGIN; and when
\* node_peak_rssi > 0 it is ENTER_AT_PEAK_MARGIN or more below node_peak_rssi
C11_CapturedLevel ==
    \A k \in NodeIds :
        EnterCaptureDone(k) =>
            /\ nodes[k].enter_at_level <= MaxSample(cap_samples[k])
            /\ \/ MinSample(cap_samples[k]) <= nodes[k].enter_at_level
               \/ nodes[k].enter_at_level
                      = nodes[k].node_peak_rssi - ENTER_AT_PEAK_MARGIN
            /\ nodes[k].node_peak_rssi > 0 =>
                   nodes[k].node_peak_rssi - nodes[k].enter_at_level
                       >= ENTER_AT_PEAK_MARGIN

\* a capture has completed whose samples were all within the margin of the
\* node peak, and the level went below the smallest of them
C11_Witness ==
    \E k \in NodeIds :
        /\ EnterCaptureDone(k)
        /\ nodes[k].node_peak_rssi > 0
        /\ nodes[k].node_peak_rssi - MinSample(cap_samples[k])
               < ENTER_AT_PEAK_MARGIN
        /\ nodes[k].enter_at_level < MinSample(cap_samples[k])

\* the callbacks and log lines of the poll cycle, as a set
EventSet(evs) == {evs[i] : i \in 1..Len(evs)}

\* scenario S4 at the end of its capture: node k has node_peak_rssi 152, its
\* enter-at capture has just completed, and six frames were accumulated,
\* carrying RSSI 100, 110, 120, 130, 140 and 150
S4Captured(k) ==
    /\ EnterCaptureDone(k)
    /\ nodes[k].api_valid_flag
    /\ nodes[k].node_peak_rssi = 152
    /\ nodes[k].cap_enter_at_count = 6
    /\ cap_samples[k] = S4Rssi

\* C12 as stated: scenario S4 ends the capture with enter_at_level = 147
C12_Original ==
    \A k \in NodeIds : S4Captured(k) => nodes[k].enter_at_level = 147

\* C12: scenario S4 ends the capture with enter_at_level = 125, the mean of
\* the six samples, which is more than ENTER_AT_PEAK_MARGIN below the node
\* peak; the level stays 125 over the transmit that follows, and by the time
\* the node's turn goes on new_enter_or_exit_at_callback(node, True) has fired
C12_S4Level ==
    [][\A k \in NodeIds :
          S4Captured(k) =>
              /\ nodes[k].enter_at_level = 125
              /\ pc' # "xmit_enter" =>
                     /\ nodes'[k].enter_at_level = 125
                     /\ Event("new_enter_or_exit_at", k, 1) \in EventSet(events')
      ]_vars

\* scenario S4 has run to the end of its capture, 3000 ms after the start
C12_Witness ==
    \E k \in NodeIds :
        /\ S4Captured(k)
        /\ nodes[k].cap_enter_at_total = 750
        /\ now >= nodes[k].cap_enter_at_millis
        /\ now < nodes[k].cap_enter_at_millis + S4Step

\* the capture fields of a node: total, count, deadline and flag, for the
\* enter-at and for the exit-at level
CaptureFields(node, enter) ==
    IF enter
    THEN <<node.cap_enter_at_total, node.cap_enter_at_count,
           node.cap_enter_at_millis, node.cap_enter_at_flag>>
    ELSE <<node.cap_exit_at_total, node.cap_exit_at_count,
           node.cap_exit_at_millis, node.cap_exit_at_flag>>

\* the step is a call of start_capture_enter_at_level (enter) or of
\* start_capture_exit_at_level (not enter) for node k: it returns True, with
\* total and count reset, the deadline CAP_ENTER_EXIT_AT_MILLIS from now and
\* the flag set, exactly when the node is api-valid and the flag was not set;
\* otherwise it returns False and the node is as it was
StartCaptureContract(k, enter) ==
    IF nodes[k].api_valid_flag /\ ~CaptureFields(nodes[k], enter)[4]
    THEN /\ api_ret'.value = TRUE
         /\ CaptureFields(nodes'[k], enter)
                = <<0, 0, now + CAP_ENTER_EXIT_AT_MILLIS, TRUE>>
    ELSE /\ api_ret'.value = FALSE
         /\ nodes' = nodes

\* C13: start_capture_enter_at_level and start_capture_exit_at_level return
\* True only when the node is api-valid and the capture flag is not set, and
\* then reset total and count, set the deadline to now +
\* CAP_ENTER_EXIT_AT_MILLIS and set the flag; in every other case they return
\* False and leave total, count, deadline and flag as they were
C13_StartCapture ==
    [][\A k \in NodeIds :
          /\ (api_ret'.call = "start_capture_enter_at_level"
              /\ api_ret'.node = k) => StartCaptureContract(k, TRUE)
          /\ (api_ret'.call = "start_capture_exit_at_level"
              /\ api_ret'.node = k) => StartCaptureContract(k, FALSE)
      ]_vars

\* start_capture_enter_at_level has just returned False for an api-valid node
\* whose capture is running and has accumulated samples
C13_Witness ==
    \E k \in NodeIds :
        /\ api_ret.call = "start_capture_enter_at_level"
        /\ api_ret.node = k
        /\ api_ret.value = FALSE
        /\ nodes[k].api_valid_flag
        /\ nodes[k].cap_enter_at_flag
        /\ nodes[k].cap_enter_at_count > 0
        /\ nodes[k].cap_enter_at_millis > now

\* ------------------------------------------------------------ properties of the configuration API

\* the API call `call` has just returned
JustReturned(call) == api_ret.call = call

\* the writes of the latest call that went to address addr with command cmd
WritesTo(addr, cmd) ==
    SelectSeq(wire, LAMBDA e : e.op = "write" /\ e.addr = addr /\ e.cmd = cmd)

\* the 16-bit value a write carried
Carried16(e) == unpack_16(SubSeq(e.data, 1, 2))

\* C14: after set_frequency(i, 0) returns, node i's stored frequency is 0 and
\* the last WRITE_FREQUENCY write put on the wire for that node carried 5800,
\* whether the read-back matched or not
C14_FrequencyZero ==
    \A k \in NodeIds :
        (JustReturned("set_frequency") /\ api_ret.node = k /\ api_ret.arg = 0)
        => /\ nodes[k].frequency = 0
           /\ WritesTo(nodes[k].i2c_addr, WRITE_FREQUENCY) # <<>>
           /\ LET ws == WritesTo(nodes[k].i2c_addr, WRITE_FREQUENCY)
              IN  Carried16(ws[Len(ws)]) = 5800

\* set_frequency(i, 0) has returned after I2C_RETRY_COUNT rounds none of
\* which read the frequency back, the last of them reading something else
C14_Witness ==
    \E k \in NodeIds :
        /\ JustReturned("set_frequency") /\ api_ret.node = k /\ api_ret.arg = 0
        /\ api_ret.rounds = I2C_RETRY_COUNT
        /\ Len(api_ret.log) = I2C_RETRY_COUNT
        /\ wire[Len(wire)].data # NoData
        /\ unpack_16(wire[Len(wire)].data) # 5800
        /\ nodes[k].frequency = 0

\* the read-back of round i of the latest call
ReadBackOf(i) == wire[2 * i]

\* the block read back holds the bytes of v in two's complement: its value is
\* v, or v + 2^width for a negative v
EchoesValue(width, data, v) ==
    /\ data # NoData
    /\ SubSeq(data, 1, width \div 8) = Stored(width, v)

\* C15: set_and_validate_value_16 and _32 take a read-back equal to in_value
\* or to in_value + 2^16 (2^32) as success on that attempt: when the first
\* read-back is such a value, -1 echoed as 65535 among them, the call is over
\* after one write and one read-back, with no retry and no 'Value Not Set'
\* log line
C15_SignedEcho ==
    (/\ JustReturned("set_and_validate_value")
     /\ api_ret.arg[1] \in {16, 32}
     /\ EchoesValue(api_ret.arg[1], ReadBackOf(1).data, api_ret.arg[2]))
    => /\ api_ret.rounds = 1
       /\ Len(wire) = 2
       /\ wire[1].op = "write" /\ wire[1].cmd = WRITE_ENTER_AT_LEVEL
       /\ wire[2].op = "read" /\ wire[2].cmd = READ_ENTER_AT_LEVEL
       /\ api_ret.log = <<>>

\* -1 was written as a 16-bit value to WRITE_ENTER_AT_LEVEL, the node echoed
\* 65535, and the call returned 65535
C15_Witness ==
    /\ JustReturned("set_and_validate_value")
    /\ api_ret.arg = <<16, -1>>
    /\ wire[1].cmd = WRITE_ENTER_AT_LEVEL
    /\ SubSeq(wire[1].data, 1, 2) = pack_16(-1)
    /\ ReadBackOf(1).data = <<255, 255>>
    /\ api_ret.value = 65535
    /\ api_ret.rounds = 1

\* the width and in_value of the set-and-validate operation of the latest
\* call, which is a direct call or set_frequency
SetCall ==
    IF JustReturned("set_frequency")
    THEN [width |-> 16,
          in_value |-> IF api_ret.arg = 0 THEN 5800 ELSE api_ret.arg]
    ELSE [width |-> api_ret.arg[1], in_value |-> api_ret.arg[2]]

\* round i of the latest call matched: the read-back is in_value, or for 16
\* and 32 bits in_value + 2^width
RoundMatched(i) ==
    /\ EchoesValue(SetCall.width, ReadBackOf(i).data, SetCall.in_value)
    /\ SetCall.width = 8 => SetCall.in_value >= 0

\* the rounds of the latest call: each a write of in_value with the write
\* command followed by a read-back, at most I2C_RETRY_COUNT of them, none
\* but the last matching, the last matching unless they are exhausted, and
\* one 'Value Not Set' log line for each that did not match
RoundsAsSpecified ==
    /\ api_ret.rounds \in 1..I2C_RETRY_COUNT
    /\ Len(wire) = 2 * api_ret.rounds
    /\ \A i \in 1..api_ret.rounds :
          /\ wire[2 * i - 1].op = "write"
          /\ SubSeq(wire[2 * i - 1].data, 1, SetCall.width \div 8)
                 = Pack(SetCall.width, SetCall.in_value)
          /\ wire[2 * i].op = "read"
    /\ \A i \in 1..(api_ret.rounds - 1) : ~RoundMatched(i)
    /\ RoundMatched(api_ret.rounds) \/ api_ret.rounds = I2C_RETRY_COUNT
    /\ api_ret.log =
          [i \in 1..(IF RoundMatched(api_ret.rounds) THEN api_ret.rounds - 1
                     ELSE api_ret.rounds) |-> i]

\* what the latest call handed back: the return value of a direct call, the
\* frequency stored by set_frequency(i, frequency) with frequency not 0
HandedBack ==
    IF JustReturned("set_frequency")
    THEN nodes[api_ret.node].frequency
    ELSE api_ret.value

\* the latest call is a set-and-validate operation whose value is handed back
SetCallReturned ==
    \/ JustReturned("set_and_validate_value")
    \/ JustReturned("set_frequency") /\ api_ret.arg # 0

\* C16 as stated: the rounds are as specified and the value returned, which
\* set_frequency stores as node.frequency, is the value the node echoed on
\* the last round
C16_Original ==
    SetCallReturned =>
        /\ RoundsAsSpecified
        /\ ReadBackOf(api_ret.rounds).data # NoData
        /\ HandedBack = get_value(SetCall.width, ReadBackOf(api_ret.rounds).data)

\* C16: the rounds are as specified and the value returned, which
\* set_frequency stores as node.frequency, is the value read back on the last
\* round, or in_value itself when that read-back returned no data
C16_SetAndValidate ==
    SetCallReturned =>
        /\ RoundsAsSpecified
        /\ HandedBack =
              IF ReadBackOf(api_ret.rounds).data # NoData
              THEN get_value(SetCall.width, ReadBackOf(api_ret.rounds).data)
              ELSE AsValue(SetCall.width, SetCall.in_value)

\* set_frequency(i, 5658) went through I2C_RETRY_COUNT rounds, the node
\* echoing 5659 on four and the last read-back failing, and stored 5658
C16_Witness ==
    \E k \in NodeIds :
        /\ JustReturned("set_frequency") /\ api_ret.node = k
        /\ api_ret.arg = 5658
        /\ api_ret.rounds = I2C_RETRY_COUNT
        /\ api_ret.log = <<1, 2, 3, 4, 5>>
        /\ ReadBackOf(4).data = pack_16(5659)
        /\ ReadBackOf(5).data = NoData
        /\ nodes[k].frequency = 5658

\* the writes of the latest call are one mark-start-time write to each node
\* of ks, addressed to that node
OneWriteEach(ks) ==
    /\ Len(wire) = Cardinality(ks)
    /\ \A k \in ks :
          Cardinality({i \in 1..Len(wire) :
                          wire[i].op = "write"
                          /\ wire[i].addr = nodes[k].i2c_addr}) = 1

\* C17: mark_start_time_global, on a registry with a node, issues exactly one
\* broadcast write to address 0 and no write to a node if the first node's
\* api_level >= 15; otherwise one write to each api-valid node, at that
\* node's address, and none to the other nodes
C17_MarkStartTimeGlobal ==
    (JustReturned("mark_start_time_global") /\ Len(nodes) >= 1) =>
        /\ api_ret.error = ""
        /\ IF nodes[1].api_level >= 15
           THEN /\ Len(wire) = 1
                /\ wire[1].op = "write" /\ wire[1].addr = 0
           ELSE OneWriteEach({k \in NodeIds : nodes[k].api_valid_flag})

\* the level of the latest call was read back as written on the last round
LevelEchoed(k) ==
    /\ wire # <<>>
    /\ EchoesValue(IF nodes[k].api_level >= 18 THEN 8 ELSE 16,
                   wire[Len(wire)].data, api_ret.arg)

\* the writes of the latest call carry a value of `width` bits: the value,
\* the command and the checksum
WritesOfWidth(width) ==
    \A i \in 1..Len(wire) :
        wire[i].op = "write" => Len(wire[i].data) = width \div 8 + 2

\* C20: set_enter_at_level(i, level) and set_exit_at_level(i, level) touch
\* the bus and the node only when the node is api-valid; when the read-back
\* echoes the level, node.enter_at_level (exit_at_level) is the echoed value;
\* the value has 8 bits at api_level >= 18 and 16 bits below
C20_LevelStored ==
    \A k \in NodeIds :
        /\ (JustReturned("set_enter_at_level") /\ api_ret.node = k) =>
              IF nodes[k].api_valid_flag
              THEN /\ WritesOfWidth(IF nodes[k].api_level >= 18 THEN 8 ELSE 16)
                   /\ LevelEchoed(k) => nodes[k].enter_at_level = api_ret.arg
              ELSE wire = <<>>
        /\ (JustReturned("set_exit_at_level") /\ api_ret.node = k) =>
              IF nodes[k].api_valid_flag
              THEN /\ WritesOfWidth(IF nodes[k].api_level >= 18 THEN 8 ELSE 16)
                   /\ LevelEchoed(k) => nodes[k].exit_at_level = api_ret.arg
              ELSE wire = <<>>

\* ------------------------------------------------------------ properties of a failed poll

\* the step is the return of a LapStats read of node idx that failed: every
\* attempt ended in an IOError or in a checksum mismatch
ReadFailed == pc = "read" /\ seen'[idx].read \in {"io", "crc"}

\* C18: when the poll's read of a node's LapStats frame fails, the node is
\* skipped for the cycle: none of its fields changes, no lap and no crossing
\* is noted for it, and the poll goes on to the next node
C18_FailedReadSkipsNode ==
    [][ReadFailed =>
          /\ nodes' = nodes
          /\ upd_list' = upd_list
          /\ cross_list' = cross_list
          /\ events' = events
          /\ pc' = "loop" /\ idx' = idx + 1
      ]_vars

\* C19: the polling loop never stops: whatever the bus does and whatever the
\* frames hold, no update() cycle ends in an exception
C19_PollNeverStops == pc # "dead" /\ error = ""

\* ------------------------------------------------------------ properties of the registry

\* C21: after discovery, whichever probe addresses answered, the node
\* indexes are dense and 0-based in discovery order: the k-th node of the
\* registry (counting from 0) has index k, so that a lookup of the registry
\* by node.index, as mark_start_time(node.index, ...) makes, finds that node
C21_DenseIndex ==
    \A k \in NodeIds :
        /\ nodes[k].index = k - 1
        /\ nodes[k].index + 1 \in NodeIds
        /\ nodes[nodes[k].index + 1].i2c_addr = nodes[k].i2c_addr

\* the high and the low byte of a revision code
HighByte(rev_val) == rev_val \div 256

LowByte(rev_val) == rev_val % 256

\* node k of registry ns has the API level its revision code stands for and
\* the flag that goes with that level
RevisionHonoured(ns, k) ==
    /\ ns[k].api_level = IF HighByte(rev_read[k]) = 37 THEN LowByte(rev_read[k])
                         ELSE 0
    /\ ns[k].api_valid_flag = (ns[k].api_level >= 10)

\* C22: in every state after discovery and for every node, api_valid_flag is
\* true exactly when api_level >= 10, api_level being the low byte of the
\* revision code when its high byte is 0x25 and 0 otherwise; no step of the
\* polling task or of the capture API changes either field
C22_ApiLevel ==
    [][\A k \in NodeIds :
          /\ RevisionHonoured(nodes, k)
          /\ RevisionHonoured(nodes', k)
          /\ nodes'[k].api_level = nodes[k].api_level
          /\ nodes'[k].api_valid_flag = nodes[k].api_valid_flag]_vars

\* a node whose revision code carries level 18 and fails the verification
\* has had a frame processed and has then been refused a capture
C22_Witness ==
    \E k \in NodeIds :
        /\ HighByte(rev_read[k]) # 37 /\ LowByte(rev_read[k]) >= 10
        /\ nodes[k].current_rssi # 0
        /\ api_ret.call = "start_capture_enter_at_level"
        /\ api_ret.node = k
        /\ api_ret.value = FALSE

\* ------------------------------------------------------------ properties of the semaphore

\* the tasks inside `with self.semaphore`: in i2c_sleep or with an operation
\* on the bus
Inside == {t \in Tasks : tasks[t].pc \in {"chill", "io"}}

\* the semaphore is held by the task inside the block and by no other, and
\* is free when no task is inside
HeldByTheTaskInside ==
    /\ \A t \in Tasks : t \in Inside <=> semaphore = t
    /\ Inside = {} <=> semaphore = "free"

\* C23: the semaphore is released on every exit path of a transaction
\* attempt, I/O errors included: whenever no attempt is in progress the
\* semaphore is free, and under fair cooperative scheduling every task that
\* asks for the bus comes to hold it
C23_SemaphoreReleased ==
    /\ []HeldByTheTaskInside
    /\ \A t \in Tasks : (tasks[t].pc = "acquire") ~> (semaphore = t)

\* the polling task waits for the semaphore after an attempt of its own
\* failed by IOError, while the API holds the semaphore after a failed
\* write and the sensor task waits as well
C23_Witness ==
    /\ tasks["poll"].pc = "acquire" /\ "io" \in tasks["poll"].fails
    /\ semaphore = "api" /\ tasks["api"].kind = "write"
    /\ tasks["api"].retry_count > 0
    /\ tasks["env"].pc = "acquire"

\* ------------------------------------------------------------ properties of the capture windows

\* the polling task takes node k's read to its end: the step that reads the
\* clock at lines 298 and 312
ReadReturns(k) == pc = "read" /\ idx = k /\ pc' # "read"

\* C24 as stated: capture state is self-clearing: once
\* start_capture_enter_at_level (or exit) has set the capture flag of a
\* node, the polling loop clears it, and does so in the first poll of the
\* node whose clock reading is at or past the capture deadline.  (The exit-at
\* window of a poll that also ends the enter-at window is closed after the
\* transmit of the enter-at level.)
C24_Original ==
    [][\A k \in NodeIds :
          ReadReturns(k) =>
              /\ (nodes[k].cap_enter_at_flag
                    /\ now' >= nodes[k].cap_enter_at_millis)
                 => ~nodes'[k].cap_enter_at_flag
              /\ (nodes[k].cap_exit_at_flag
                    /\ now' >= nodes[k].cap_exit_at_millis
                    /\ pc' # "xmit_enter")
                 => ~nodes'[k].cap_exit_at_flag]_vars

\* the read of node k returns a frame whose RSSI is in [1, 999], and the
\* polling task gets to line 295 with it
ReturnsSample(k) ==
    /\ ReadReturns(k)
    /\ seen'[k].data # NoData
    /\ RssiOf(nodes[k].api_level, seen'[k].data) \in 1..999
    /\ pc' # "dead"

\* the capture fields of a node record
EnterWindow(node) ==
    <<node.cap_enter_at_flag, node.cap_enter_at_total, node.cap_enter_at_count,
      node.cap_enter_at_millis>>

ExitWindow(node) ==
    <<node.cap_exit_at_flag, node.cap_exit_at_total, node.cap_exit_at_count,
      node.cap_exit_at_millis>>

\* the polling task goes on after the transmit of the enter-at level of
\* node k, at line 308
TransmitReturns(k) == pc = "xmit_enter" /\ idx = k /\ pc' # "xmit_enter"

\* C24: a capture window is closed by the polling loop and by nothing else.
\* The capture flag is cleared by the first poll of the node that returns a
\* frame with an RSSI in [1, 999] and takes it to line 295 at a clock
\* reading at or past the capture deadline; a poll before the deadline, one
\* whose read returns nothing or whose RSSI is out of range, and one that an
\* exception ends before line 295, leaves the window as it is, whatever the
\* clock reads
C24_SelfClearing ==
    [][\A k \in NodeIds :
          /\ (ReturnsSample(k) /\ nodes[k].cap_enter_at_flag)
             => (nodes'[k].cap_enter_at_flag
                    <=> now' < nodes[k].cap_enter_at_millis)
          /\ (ReturnsSample(k) /\ nodes[k].cap_exit_at_flag
                /\ pc' # "xmit_enter")
             => (nodes'[k].cap_exit_at_flag
                    <=> now' < nodes[k].cap_exit_at_millis)
          /\ (TransmitReturns(k) /\ nodes[k].cap_exit_at_flag)
             => (nodes'[k].cap_exit_at_flag
                    <=> now' < nodes[k].cap_exit_at_millis)
          /\ (ReadReturns(k) /\ ~ReturnsSample(k))
             => /\ EnterWindow(nodes'[k]) = EnterWindow(nodes[k])
                /\ ExitWindow(nodes'[k]) = ExitWindow(nodes[k])
          /\ (nodes[k].cap_enter_at_flag /\ ~nodes'[k].cap_enter_at_flag)
             => ReturnsSample(k)
          /\ (nodes[k].cap_exit_at_flag /\ ~nodes'[k].cap_exit_at_flag)
             => (ReturnsSample(k) \/ TransmitReturns(k))]_vars

\* the poll of a node has just closed its enter-at window at a clock reading
\* past the deadline, after an earlier poll inside the window had added its
\* sample, and the exit-at window of the node is still open
C24_Witness ==
    \E k \in NodeIds :
        /\ pc = "xmit_enter" /\ idx = k
        /\ ~nodes[k].cap_enter_at_flag
        /\ nodes[k].cap_enter_at_count >= 2
        /\ now >= nodes[k].cap_enter_at_millis
        /\ nodes[k].cap_exit_at_flag
        /\ now < nodes[k].cap_exit_at_millis

\* the mean of a capture rounded to the nearest integer, as round() has it
RoundedMean(total, count) == (2 * total + count) \div (2 * count)

\* the polling task goes on after the transmit of the exit-at level of
\* node k, at line 319
ExitTransmitReturns(k) == pc = "xmit_exit" /\ idx = k /\ pc' # "xmit_exit"

\* the transmit of `level` and the callback that follows it
Completion(k, enter, level) ==
    <<Event(IF enter THEN "transmit_enter_at_level"
            ELSE "transmit_exit_at_level", k, level),
      Event("new_enter_or_exit_at", k, IF enter THEN 1 ELSE 0)>>

\* a step completes the exit-at capture of node k: the flag is clear, the
\* level is the rounded mean of the capture, and the transmit is next
ExitCaptureCompleted(k) ==
    /\ idx' = k /\ pc # "xmit_exit" /\ pc' = "xmit_exit"
    /\ ~nodes'[k].cap_exit_at_flag
    /\ nodes'[k].exit_at_level =
          RoundedMean(nodes'[k].cap_exit_at_total, nodes'[k].cap_exit_at_count)

\* C25: a completed capture clears the capture flag, then transmits the
\* derived level to the node, then invokes new_enter_or_exit_at_callback
\* with (node, True) for enter-at and (node, False) for exit-at, each once
\* and in this order; the exit-at level is the rounded mean of the capture,
\* with no peak margin; and a capture started while the transmit yields is a
\* fresh capture that leaves the finished one as it is
C25_CaptureCompletion ==
    [][\A k \in NodeIds :
          /\ (idx' = k /\ pc # "xmit_exit" /\ pc' = "xmit_exit")
             => ExitCaptureCompleted(k)
          /\ (idx' = k /\ pc # "xmit_enter" /\ pc' = "xmit_enter")
             => ~nodes'[k].cap_enter_at_flag
          /\ ExitTransmitReturns(k)
             => /\ events' = events \o Completion(k, FALSE, nodes[k].exit_at_level)
                /\ nodes'[k].exit_at_level = nodes[k].exit_at_level
                /\ ExitWindow(nodes'[k]) = ExitWindow(nodes[k])
          /\ TransmitReturns(k)
             => /\ events' = events \o Completion(k, TRUE, nodes[k].enter_at_level)
                /\ nodes'[k].enter_at_level = nodes[k].enter_at_level
                /\ EnterWindow(nodes'[k]) = EnterWindow(nodes[k])
          /\ (pc = "xmit_exit" /\ idx = k /\ pc' = "xmit_exit")
             => /\ nodes'[k].exit_at_level = nodes[k].exit_at_level
                /\ events' = events
                /\ nodes'[k].cap_exit_at_flag # nodes[k].cap_exit_at_flag
                   => EnterWindow(nodes'[k]) = EnterWindow(nodes[k])
                      /\ nodes'[k].cap_exit_at_total = 0
                      /\ nodes'[k].cap_exit_at_count = 0
                      /\ nodes'[k].cap_exit_at_millis
                             = now + CAP_ENTER_EXIT_AT_MILLIS]_vars

\* ------------------------------------------------------------ properties of the reads of a poll cycle

\* the polling task has left update() and no API call has run since
CycleOver == pc \in {"sleep", "dead"} /\ api_ret.seq = 0

\* the size of the LapStats read as the claim has it
ClaimedSize(api_level) ==
    IF api_level >= 18 THEN 19
    ELSE IF api_level >= 13 THEN 20
    ELSE IF api_level >= 10 THEN 18
    ELSE 17

\* C26 as stated: in each poll cycle exactly one read_block of
\* READ_LAP_STATS is issued for every node with frequency != 0, and it asks
\* for 19 bytes at api_level >= 18, 20 at 13..17, 18 at 10..12 and 17 below 10
C26_Original ==
    CycleOver =>
        \A k \in NodeIds :
            nodes[k].frequency # 0 =>
                /\ seen[k].reads = 1
                /\ seen[k].size = ClaimedSize(nodes[k].api_level)

\* the size of the LapStats read by API level
SizeByLevel(api_level) ==
    IF api_level >= 18 THEN 19
    ELSE IF api_level = 17 THEN 28
    ELSE IF api_level >= 13 THEN 20
    ELSE IF api_level >= 5 THEN 18
    ELSE 17

\* C26: in each poll cycle at most one read_block of READ_LAP_STATS is
\* issued per node, and exactly one for every node with frequency != 0 that
\* the cycle comes to (all of them, unless an exception ends update() at an
\* earlier node), none for a node with frequency 0; it asks for 19 bytes at
\* api_level >= 18, 28 at 17, 20 at 13..16, 18 at 5..12 and 17 below 5
C26_OneReadBySize ==
    \A k \in NodeIds :
        /\ seen[k].reads <= 1
        /\ seen[k].reads = 1 => seen[k].size = SizeByLevel(nodes[k].api_level)
        /\ (CycleOver /\ (pc = "sleep" \/ k <= idx))
           => (seen[k].reads = 1 <=> nodes[k].frequency # 0)
        /\ (CycleOver /\ pc = "dead" /\ k > idx) => seen[k].reads = 0

\* a poll cycle has ended in which a node at API level 17 was read once, for
\* 28 bytes, and the other node, whose frequency is 0, was not read
C26_Witness ==
    /\ CycleOver /\ pc = "sleep"
    /\ \E j, k \in NodeIds :
          /\ nodes[k].api_level = 17
          /\ seen[k].reads = 1 /\ seen[k].size = 28
          /\ Len(seen[k].data) >= 28
          /\ nodes[j].frequency = 0 /\ seen[j].reads = 0

\* ------------------------------------------------------------ properties of the lap time below API level 18

\* the 32-bit lap_time_ms of a frame of the older layout
FrameLapMs(k) == unpack_32(From(seen[k].data, 1))

\* C27: for an api-valid node below API level 18 whose frame was accepted,
\* lap_ms_since_start is the frame's 32-bit lap_time_ms, or 0 when that
\* exceeds 9,999,999, and the lap time handed to pass_record for a new lap is
\* the 32-bit value as the frame has it (in units of 1 / (2 * MsPerSecond) ms)
C27_RawLapTime ==
    CycleEnded =>
        \A k \in NodeIds :
            (nodes[k].api_valid_flag /\ nodes[k].api_level < 18
               /\ FrameAccepted(k)) =>
                /\ nodes[k].lap_ms_since_start
                     = IF FrameLapMs(k) > 9999999 THEN 0 ELSE FrameLapMs(k)
                /\ \A j \in Invocations("pass_record", k) :
                       events[j].arg = FrameLapMs(k) * 2 * MsPerSecond


\* ---- properties of the history ----

\* s is the beginning of t
StartsWith(t, s) ==
    /\ Len(s) <= Len(t)
    /\ \A j \in 1..Len(s) : t[j] = s[j]

\* a node's history pairs every value with a time
HistoryPaired ==
    \A k \in DOMAIN nodes :
        Len(nodes[k].history_values) = Len(nodes[k].history_times)

\* a step keeps every entry of every node's history where it is
HistoryKept ==
    \A k \in DOMAIN nodes :
        k \in DOMAIN nodes' =>
            /\ StartsWith(nodes'[k].history_values, nodes[k].history_values)
            /\ StartsWith(nodes'[k].history_times, nodes[k].history_times)

\* C28: in every reachable state history_values and history_times of every
\* node have the same length, and no step of a poll or of an API call
\* removes or changes an entry of either: a step only appends
C28_HistoryAppendOnly == []HistoryPaired /\ [][HistoryKept]_vars

\* the frames of two polls have left their samples in a node's history, the
\* samples of the first before those of the second
C28_Witness ==
    \E k \in DOMAIN nodes :
        /\ Len(nodes[k].history_values) >= 6
        /\ nodes[k].history_times[1] < nodes[k].history_times[4]


\* the peak and nadir fields of the frame of API level 18 node k was sent
FramePeakRssi(k) == At(seen[k].data, 11)
FramePeakFirstTime(k) == unpack_16(From(seen[k].data, 12))
FramePeakLastTime(k) == unpack_16(From(seen[k].data, 14))
FrameNadirRssi(k) == At(seen[k].data, 16)
FrameNadirTime(k) == unpack_16(From(seen[k].data, 17))

\* the RSSI values of the peak samples of a frame where a peak is told by
\* two samples whenever its first and last time differ
PeakValues(k) ==
    IF FramePeakFirstTime(k) = FramePeakLastTime(k)
    THEN <<FramePeakRssi(k)>>
    ELSE <<FramePeakRssi(k), FramePeakRssi(k)>>

\* the RSSI values of the samples of the frame, in the order of the times
SampleValues(k) ==
    IF FramePeakRssi(k) > 0
    THEN IF FrameNadirRssi(k) > 0
         THEN IF FramePeakLastTime(k) < FrameNadirTime(k)
              THEN PeakValues(k) \o <<FrameNadirRssi(k)>>
              ELSE <<FrameNadirRssi(k)>> \o PeakValues(k)
         ELSE PeakValues(k)
    ELSE IF FrameNadirRssi(k) > 0 THEN <<FrameNadirRssi(k)>> ELSE <<>>

\* what a poll cycle has added to the history of node k
AddedValues(k) ==
    SubSeq(nodes[k].history_values,
           Len(nodes[k].history_values) - Len(SampleValues(k)) + 1,
           Len(nodes[k].history_values))

\* C29: an accepted frame of a node at API level 18 or above appends nothing
\* when peakRssi and nadirRssi are 0, one nadir sample when only nadirRssi
\* is above 0, for a peak one sample when peakFirstTime = peakLastTime and
\* two samples of the same RSSI otherwise, and with both present the peak
\* before the nadir iff peakLastTime < nadirTime
C29_HistorySamples ==
    [][\A k \in NodeIds :
          (pc = "read" /\ idx = k /\ nodes[k].api_level >= 18
             /\ FrameAccepted(k)') =>
              /\ Len(nodes'[k].history_values)
                   = Len(nodes[k].history_values) + Len(SampleValues(k)')
              /\ AddedValues(k)' = SampleValues(k)']_vars


\* ------------------------------------------------------------ properties of a disabled node

\* the stored frequency of node k is 0: the node is disabled
Disabled(k) == nodes[k].frequency = 0

\* the step is one of the polling task, not the return of an API call
StepOfThePoll == api_ret'.seq = 0

AllReturned == \A c \in Callers : tasks[c].pc \in {"idle", "done"}

\* C31: on a bus that never fails, whatever the interleaving of the calls of
\* set_frequency with frequencies other than 0 and of the polling task,
\* once every call has returned node.frequency is the frequency the node
\* itself holds, the value of the last WRITE_FREQUENCY that reached it
C31_FrequencyAgrees ==
    AllReturned => \A k \in NodeIds : nodes[k].frequency = device[k]

\* two calls with different frequencies have returned, one of them after
\* its read-back gave the frequency of the other call in every round
C31_Witness ==
    /\ tasks["a"].pc = "done" /\ tasks["b"].pc = "done"
    /\ tasks["a"].in_value # tasks["b"].in_value
    /\ \E c \in Callers :
          /\ tasks[c].rounds = I2C_RETRY_COUNT
          /\ nodes[tasks[c].node].frequency # tasks[c].in_value


\* the polling task has processed a frame of node k in this cycle, the one
\* its latest call of read_block returned
PollHasFrame(k) ==
    /\ tasks["poll"].pc = "idle"
    /\ tasks["poll"].kind = "read"
    /\ tasks["poll"].node = k
    /\ seen[k].reads = 1
    /\ seen[k].data # NoData

\* the readtime update() computed for the frame, twice its milliseconds: the
\* time of the history sample the frame gave at API level 18, which lies 0
\* ms before the frame
ReadtimeUsed(k) == nodes[k].history_times[Len(nodes[k].history_times)]

\* C32: for a node at API level 17 or above, the round trip and the
\* readtime of a frame the poll processes are computed from the request and
\* response times of the bus transaction that returned the frame, and
\* t_request <= readtime <= t_response, whatever reads of other tasks and
\* failed attempts come between
C32_OwnTimestamps ==
    \A k \in NodeIds :
        (nodes[k].api_level >= 17 /\ PollHasFrame(k)) =>
            /\ seen[k].rtt = tasks["poll"].answered - tasks["poll"].sent
            /\ nodes[k].api_level >= 18 =>
                  /\ ReadtimeUsed(k)
                       = tasks["poll"].sent + tasks["poll"].answered
                  /\ 2 * tasks["poll"].sent <= ReadtimeUsed(k)
                  /\ ReadtimeUsed(k) <= 2 * tasks["poll"].answered

=============================================================================
